---- MODULE Spec2Model ----
(***************************************************************************)
(* Payment-order settlement of the MRTC eCampus backend: the Firestore     *)
(* collections `payments`, `payment_orders`, `enrollments`, the course     *)
(* counters and the users' enrolledCourses, and every HTTP handler and     *)
(* service method that reads or writes them.  A handler is a sequence of   *)
(* steps, one per awaited Firestore operation; steps of different requests *)
(* interleave freely.                                                      *)
(***************************************************************************)
EXTENDS Integers, Naturals, Sequences, FiniteSets, TLC

\* ------------------------------------------------------------------ bounds
MaxReq == 3
MaxTime == 1
NumRand == 1

Slots == 1..MaxReq
Rands == 1..NumRand

\* The authenticated users with a users/{uid} document, one (NoProfile) whose token
\* is valid but who has no such document, the catalog and a course id not in it.
Users == {"u1", "u2"}
NoProfile == "u3"
Courses == {"c1"}
NoCourse == "c0"
Txns == {"t1"}

\* checkDuplicatePayment's default window, in hours, and in clock units (ms).
timeWindowHours == 24
WindowMs == timeWindowHours * 3600 * 1000

\* One step of the clock, in ms.
TickMs == 3600 * 1000
\* The time to live of a /create-order order, and the Payment model's default, in ms.
OrderTtlMs == 30 * 60 * 1000
PaymentTtlMs == 15 * 60 * 1000

VARIABLES
  payments,        \* collection `payments`: doc id -> document
  payment_orders,  \* collection `payment_orders`: doc id -> document
  enrollments,     \* collection `enrollments`: doc id -> document
  courses,         \* courses/{id}: the two enrollment counters
  users,           \* users/{id}.enrolledCourses
  reqs,            \* the requests: slot -> position and locals of its handler
  now,             \* Date.now()
  env              \* process.env: NODE_ENV and the webhook secrets

vars == <<payments, payment_orders, enrollments, courses, users, reqs, now, env>>
stores == <<payments, payment_orders, enrollments, courses, users>>

\* ----------------------------------------------------------------- helpers
Idle == [pc |-> "idle"]
NoDetails == <<>>
\* A document id, and an order reference, that no document has.
NoDoc == <<"none", "", 0>>
NoOrder == <<"NONE", 0, 0>>

\* A Firestore auto-generated document id: fresh in its collection.
AutoId(coll) == <<"auto", "", Cardinality(DOMAIN coll) + 1>>

\* doc.set(data) / doc.update(field...) on a collection value.
SetDoc(coll, id, data) == [x \in (DOMAIN coll) \cup {id} |-> IF x = id THEN data ELSE coll[x]]

\* A map field written with dotted paths ('paymentDetails.transactionId': v).
PutField(d, k, v) == [x \in (DOMAIN d) \cup {k} |-> IF x = k THEN v ELSE d[x]]
HasField(d, k) == k \in DOMAIN d

\* FieldValue.arrayUnion(entry): appended unless an equal element is present.
ArrayUnion(arr, e) == IF \E j \in 1..Len(arr) : arr[j] = e THEN arr ELSE Append(arr, e)

HistoryEntry(status, message) == [status |-> status, timestamp |-> now, message |-> message]

\* where(field == value): the ids of the matching documents.
WhereOrderId(coll, ref) == {d \in DOMAIN coll : coll[d].orderId = ref}
WherePaypalOrderId(ref) ==
  {d \in DOMAIN payments :
     HasField(payments[d].paymentDetails, "paypalOrderId")
     /\ payments[d].paymentDetails["paypalOrderId"] = ref}
WhereUserCourse(u, c) ==
  {d \in DOMAIN enrollments : enrollments[d].userId = u /\ enrollments[d].courseId = c}

\* `${userId}_${courseId}`
EnrollmentId(u, c) == <<u, c, 0>>

\* The slot of the next request: requests are numbered in arrival order.
CanStart(i) ==
  /\ reqs[i] = Idle
  /\ \A j \in Slots : j < i => reqs[j] # Idle

Running(i) == reqs[i].pc \notin {"idle", "done"}
Done(i) == reqs[i].pc = "done"
Quiescent == \A i \in Slots : ~Running(i)

Finish(i, http, extra) ==
  reqs' = [reqs EXCEPT ![i] = [pc |-> "done", kind |-> reqs[i].kind,
                                 args |-> reqs[i].args, http |-> http,
                                 result |-> extra]]

\* A request answered in its first step.
Answer(i, kind, args, http, extra) ==
  reqs' = [reqs EXCEPT ![i] = [pc |-> "done", kind |-> kind, args |-> args,
                                 http |-> http, result |-> extra]]

Goto(i, pc) == reqs' = [reqs EXCEPT ![i].pc = pc]

\* -------------------------------------------------------------------- Init
Init ==
  /\ payments = <<>>
  /\ payment_orders = <<>>
  /\ enrollments = <<>>
  /\ courses = [c \in Courses |-> [totalEnrollments |-> 0, enrollmentCount |-> 0]]
  /\ users = [u \in Users |-> {}]
  /\ reqs = [i \in Slots |-> Idle]
  /\ now = 0
  /\ env \in [production : BOOLEAN, paychanguSecret : BOOLEAN, paypalWebhookId : BOOLEAN]

\* The clock advances between any two steps; it is observed at whole hours.
Tick ==
  /\ now < MaxTime * TickMs
  /\ now' = now + TickMs
  /\ UNCHANGED <<stores, reqs, env>>

\* ------------------------------------------------------ amounts and fees
\* Amounts are counted in 1/1000 of a cent, so that every rate of the source
\* (10%, 3%, 2.9%) of a whole-cent amount is a whole number; the arithmetic is
\* exact, where the source's is binary floating point.
Cent == 1000
Usd == 100 * Cent

\* A JavaScript number: a value, or NaN.  Every comparison with NaN is false.
Num(v) == [v |-> v, nan |-> FALSE]
NaN == [v |-> 0, nan |-> TRUE]
IsNaN(a) == a.nan
Sub(a, b) == IF a.nan \/ b.nan THEN NaN ELSE Num(a.v - b.v)
Gt(a, b) == ~a.nan /\ ~b.nan /\ a.v > b.v
Lt(a, b) == ~a.nan /\ ~b.nan /\ a.v < b.v
Le(a, b) == ~a.nan /\ ~b.nan /\ a.v <= b.v
Abs(a) == IF a.nan THEN NaN ELSE Num(IF a.v < 0 THEN 0 - a.v ELSE a.v)

\* Number.prototype.toFixed(2): rounded to the nearest cent.
toFixed2(a) ==
  IF a.nan THEN NaN
  ELSE IF a.v < 0 THEN Num(0 - (((0 - a.v) + Cent \div 2) \div Cent) * Cent)
  ELSE Num(((a.v + Cent \div 2) \div Cent) * Cent)

\* The tolerance of both validators (MIN_AMOUNT_TOLERANCE unset: 0.01) and the
\* overpayment they warn about (100).
tolerance == Cent
overpaymentThreshold == 100 * Usd

\* PaymentService.validatePaymentAmount(requiredAmount, paidAmount); the message
\* is kept as the figures it prints.
validatePaymentAmount(requiredAmount, paidAmount) ==
  LET shortfall == Sub(requiredAmount, paidAmount)
      overpayment == Sub(paidAmount, requiredAmount)
  IN IF IsNaN(paidAmount) \/ Le(paidAmount, Num(0))
     THEN [valid |-> FALSE, type |-> "invalid_amount"]
     ELSE IF Gt(shortfall, Num(tolerance))
     THEN [valid |-> FALSE, type |-> "underpayment",
           message |-> [required |-> toFixed2(requiredAmount),
                        paid |-> toFixed2(paidAmount),
                        shortfall |-> toFixed2(shortfall)]]
     ELSE IF Gt(overpayment, Num(overpaymentThreshold))
     THEN [valid |-> FALSE, type |-> "overpayment_warning",
           message |-> [required |-> toFixed2(requiredAmount),
                        overpayment |-> toFixed2(overpayment)],
           requiresConfirmation |-> TRUE]
     ELSE [valid |-> TRUE, type |-> "valid",
           overpayment |-> IF Gt(overpayment, Num(0)) THEN overpayment ELSE Num(0)]

\* A validator that reports an underpayment only beyond twice the tolerance.
validateAmountLax(paidAmount, requiredAmount) ==
  IF Gt(Abs(Sub(paidAmount, requiredAmount)), Num(2 * tolerance))
     /\ Lt(paidAmount, requiredAmount)
  THEN [valid |-> FALSE, type |-> "underpayment",
        shortfall |-> Sub(requiredAmount, paidAmount)]
  ELSE [valid |-> TRUE, type |-> "valid", overpayment |-> Num(0)]

\* PaymentProcessor.validateAmount(paidAmount, requiredAmount)
validateAmount(paidAmount, requiredAmount) ==
  LET overpayment == Sub(paidAmount, requiredAmount)
  IN IF Gt(Abs(Sub(paidAmount, requiredAmount)), Num(tolerance))
        /\ Lt(paidAmount, requiredAmount)
     THEN [valid |-> FALSE, type |-> "underpayment",
           shortfall |-> Sub(requiredAmount, paidAmount)]
     ELSE IF Gt(overpayment, Num(overpaymentThreshold))
     THEN [valid |-> TRUE, type |-> "overpayment_warning",
           overpayment |-> overpayment, requiresConfirmation |-> TRUE]
     ELSE [valid |-> TRUE, type |-> "valid",
           overpayment |-> IF Gt(overpayment, Num(0)) THEN overpayment ELSE Num(0)]

\* rate * amount, for the rates of the source, in thousandths.
Rate(amount, perMille) ==
  (amount \div 1000) * perMille + ((amount % 1000) * perMille) \div 1000

\* PaymentProcessor.calculateTotal(amount, method)
calculateTotal(amount, method) ==
  LET feeRate == CASE method = "paychangu" -> 30
                   [] method = "paypal" -> 29
                   [] method = "bank_transfer" -> 0
                   [] OTHER -> 30
      fixedFee == IF method = "paypal" THEN 30 * Cent ELSE 0
      platformFee == Rate(amount, 100)
      paymentFee == Rate(amount, feeRate) + fixedFee
  IN [amount |-> amount, platformFee |-> platformFee, paymentFee |-> paymentFee,
      total |-> amount + platformFee + paymentFee]

\* PaymentService.calculateFees(amount, method, coursePrice), PLATFORM_FEE_RATE unset.
calculateFees(amount, method, coursePrice) ==
  LET platformFee == Rate(coursePrice, 100)
      processingFee == CASE method = "paychangu" -> Rate(amount, 30)
                         [] method = "paypal" -> Rate(amount, 29) + 30 * Cent
                         [] OTHER -> 0
  IN [platform |-> platformFee, processing |-> processingFee,
      total |-> platformFee + processingFee]

\* courseData.priceUSD of the catalog's courses.
priceUSD(c) == 50 * Usd

\* The amount /validate-amount, /create-paychangu and /create-paypal require:
\* courseData.priceUSD * (1 + 0.10).
requiredAmount(c) == priceUSD(c) + Rate(priceUSD(c), 100)

\* The amounts the fee functions and createPaymentOrder are called with.
FeeAmounts == {Cent, 50 * Usd, 5650 * Cent, 200 * Usd}

\* ----------------------------------------------------------- order creation
\* PaymentService.generateOrderId and the inline generator of /create-paychangu:
\* `MRTC-${Date.now() base 36}-${6 random base-36 digits}`.
generateOrderId(r) == <<"MRTC", now, r>>
\* The inline generator of /create-paypal: `MRTC-PAYPAL-${Date.now() base 36}`.
PaypalOrderId == <<"MRTC-PAYPAL", now, 0>>
\* generateOrderId of the /create-order routes: date, last 6 ms digits, 3 random digits.
generateOrderIdOrders(r) == <<"MRTC-DATE", now, r>>

\* A createPaymentOrder that forgets the processing fee in amount.net.
createPaymentOrderNetOfPlatformFee(i, u, c, m, amount, r) ==
  /\ CanStart(i)
  /\ c \in Courses
  /\ LET fees == calculateFees(amount, m, priceUSD(c))
     IN payments' = SetDoc(payments, AutoId(payments),
           [orderId |-> generateOrderId(r), userId |-> u, courseId |-> c,
            method |-> m, status |-> "pending",
            amount |-> [requested |-> amount, net |-> amount - fees.platform],
            fees |-> fees,
            history |-> <<HistoryEntry("created", "Payment order created")>>,
            paymentDetails |-> NoDetails, createdAt |-> now])
  /\ Answer(i, "createPaymentOrder", [userId |-> u, courseId |-> c, method |-> m], 0,
            "created")
  /\ UNCHANGED <<payment_orders, enrollments, courses, users, now, env>>

\* PaymentService.createPaymentOrder(userId, courseId, method, amount).
createPaymentOrder(i, u, c, m, amount, r) ==
  /\ CanStart(i)
  /\ LET args == [userId |-> u, courseId |-> c, method |-> m]
         id == AutoId(payments)
         fees == calculateFees(amount, m, priceUSD(c))
     IN IF c \notin Courses
        THEN /\ Answer(i, "createPaymentOrder", args, 0, "Course not found")
             /\ UNCHANGED stores
        ELSE /\ payments' = SetDoc(payments, id,
                  [orderId |-> generateOrderId(r), userId |-> u, courseId |-> c,
                   method |-> m, status |-> "pending",
                   amount |-> [requested |-> amount, net |-> amount - fees.total],
                   fees |-> fees,
                   history |-> <<HistoryEntry("created", "Payment order created")>>,
                   paymentDetails |-> NoDetails, createdAt |-> now])
             /\ Answer(i, "createPaymentOrder", args, 0, "created")
             /\ UNCHANGED <<payment_orders, enrollments, courses, users>>
  /\ UNCHANGED <<now, env>>

\* A request body's field that is absent.
Missing == ""

\* !amount: an amount that is absent, not a number or zero.  An absent amount
\* is written NaN: both are falsy and neither is <= 0 or > 0.
Falsy(amount) == amount.nan \/ amount.v = 0

\* The middleware validatePaymentData on the body's amount, courseId and userId.
validatePaymentData(amount, courseId, userId) ==
  IF Falsy(amount) \/ Le(amount, Num(0)) THEN "Invalid amount"
  ELSE IF courseId = Missing \/ userId = Missing THEN "Missing required fields"
  ELSE "ok"

\* A /create-paychangu that stores the order before it checks the phone number.
CreatePaychanguStoringEarly(i, u, c, bodyUserId, amount, phoneOk, r) ==
  /\ CanStart(i)
  /\ LET args == [userId |-> u, courseId |-> c, amount |-> amount,
                  bodyUserId |-> bodyUserId, phoneOk |-> phoneOk]
         id == AutoId(payments)
         checked == validatePaymentData(amount, c, bodyUserId)
         validation == validatePaymentAmount(Num(requiredAmount(c)), amount)
         order == [orderId |-> generateOrderId(r), userId |-> u, courseId |-> c,
                   method |-> "paychangu", status |-> "pending",
                   amount |-> [usd |-> amount.v],
                   fees |-> [platform |-> Rate(priceUSD(c), 100),
                             processing |-> Rate(amount.v, 30)],
                   history |-> <<>>,
                   paymentDetails |-> [x \in {"provider"} |-> "Paychangu"],
                   createdAt |-> now]
     IN IF checked # "ok"
        THEN /\ Answer(i, "create-paychangu", args, 400, checked)
             /\ UNCHANGED stores
        ELSE IF c \notin Courses
        THEN /\ Answer(i, "create-paychangu", args, 404, "Course not found")
             /\ UNCHANGED stores
        ELSE IF ~validation.valid
        THEN /\ Answer(i, "create-paychangu", args, 400, validation.type)
             /\ UNCHANGED stores
        ELSE IF ~phoneOk
        THEN /\ payments' = SetDoc(payments, id, order)
             /\ Answer(i, "create-paychangu", args, 400, "Invalid phone number format")
             /\ UNCHANGED <<payment_orders, enrollments, courses, users>>
        ELSE /\ payments' = SetDoc(payments, id, order)
             /\ reqs' = [reqs EXCEPT ![i] = [pc |-> "cp_provider", kind |-> "create-paychangu",
                                              args |-> args, doc |-> id]]
             /\ UNCHANGED <<payment_orders, enrollments, courses, users>>
  /\ UNCHANGED <<now, env>>

\* POST /create-paychangu, up to the stored pending order: u is the authenticated
\* user, c, bodyUserId and amount are the body's fields, phoneOk is the verdict of
\* the phone pattern.  (amount.mwk, a multiple of amount.usd, is left out.)
CreatePaychanguRequest(i, u, c, bodyUserId, amount, phoneOk, r) ==
  /\ CanStart(i)
  /\ LET args == [userId |-> u, courseId |-> c, amount |-> amount,
                  bodyUserId |-> bodyUserId, phoneOk |-> phoneOk]
         id == AutoId(payments)
         checked == validatePaymentData(amount, c, bodyUserId)
         validation == validatePaymentAmount(Num(requiredAmount(c)), amount)
     IN IF checked # "ok"
        THEN /\ Answer(i, "create-paychangu", args, 400, checked)
             /\ UNCHANGED stores
        ELSE IF c \notin Courses
        THEN /\ Answer(i, "create-paychangu", args, 404, "Course not found")
             /\ UNCHANGED stores
        ELSE IF ~validation.valid
        THEN /\ Answer(i, "create-paychangu", args, 400, validation.type)
             /\ UNCHANGED stores
        ELSE IF ~phoneOk
        THEN /\ Answer(i, "create-paychangu", args, 400, "Invalid phone number format")
             /\ UNCHANGED stores
        ELSE /\ payments' = SetDoc(payments, id,
                  [orderId |-> generateOrderId(r), userId |-> u, courseId |-> c,
                   method |-> "paychangu", status |-> "pending",
                   amount |-> [usd |-> amount.v],
                   fees |-> [platform |-> Rate(priceUSD(c), 100),
                             processing |-> Rate(amount.v, 30)],
                   history |-> <<>>,
                   paymentDetails |-> [x \in {"provider"} |-> "Paychangu"],
                   createdAt |-> now])
             /\ reqs' = [reqs EXCEPT ![i] = [pc |-> "cp_provider", kind |-> "create-paychangu",
                                              args |-> args, doc |-> id]]
             /\ UNCHANGED <<payment_orders, enrollments, courses, users>>
  /\ UNCHANGED <<now, env>>

\* POST /create-paychangu with a complete body whose amount is the required one
\* (amountValid) or the bare catalog price, an underpayment.
CreatePaychangu(i, u, c, amountValid, phoneOk, r) ==
  CreatePaychanguRequest(i, u, c, u,
                         IF amountValid THEN Num(requiredAmount(c)) ELSE Num(priceUSD(c)),
                         phoneOk, r)

\* POST /create-paychangu after createPaychanguPayment answered: the provider
\* reference is stored, or the request fails with 500.
CreatePaychanguProvider(i, providerOk, t) ==
  /\ reqs[i].pc = "cp_provider"
  /\ IF providerOk
     THEN /\ payments' = [payments EXCEPT ![reqs[i].doc].paymentDetails =
                            PutField(PutField(@, "transactionId", t), "paymentUrl", "url")]
          /\ Finish(i, 200, "created")
     ELSE /\ Finish(i, 500, "Payment creation failed")
          /\ UNCHANGED payments
  /\ UNCHANGED <<payment_orders, enrollments, courses, users, now, env>>

\* POST /create-paypal, up to the call of createPayPalOrder: the order id is
\* generated before the call, the document is stored after it.
CreatePaypalRequest(i, u, c, bodyUserId, amount) ==
  /\ CanStart(i)
  /\ LET args == [userId |-> u, courseId |-> c, amount |-> amount,
                  bodyUserId |-> bodyUserId]
         checked == validatePaymentData(amount, c, bodyUserId)
         validation == validatePaymentAmount(Num(requiredAmount(c)), amount)
     IN IF checked # "ok"
        THEN Answer(i, "create-paypal", args, 400, checked)
        ELSE IF c \notin Courses
        THEN Answer(i, "create-paypal", args, 404, "Course not found")
        ELSE IF ~validation.valid
        THEN Answer(i, "create-paypal", args, 400, validation.type)
        ELSE reqs' = [reqs EXCEPT ![i] = [pc |-> "pp_provider", kind |-> "create-paypal",
                                          args |-> args, oid |-> PaypalOrderId]]
  /\ UNCHANGED <<stores, now, env>>

\* POST /create-paypal after createPayPalOrder answered: the order is stored, or
\* the request fails with 500.
CreatePaypalProvider(i, providerOk) ==
  /\ reqs[i].pc = "pp_provider"
  /\ LET id == AutoId(payments)
         c == reqs[i].args.courseId
         amount == reqs[i].args.amount
     IN IF ~providerOk
        THEN /\ Finish(i, 500, "PayPal order creation failed")
             /\ UNCHANGED payments
        ELSE /\ payments' = SetDoc(payments, id,
                  [orderId |-> reqs[i].oid, userId |-> reqs[i].args.userId, courseId |-> c,
                   method |-> "paypal", status |-> "pending",
                   amount |-> [usd |-> amount.v],
                   fees |-> [platform |-> Rate(priceUSD(c), 100),
                             processing |-> Rate(amount.v, 29) + 30 * Cent],
                   history |-> <<>>,
                   paymentDetails |-> [x \in {"paypalOrderId"} |-> <<"PP", id>>],
                   createdAt |-> now])
             /\ Finish(i, 200, "created")
  /\ UNCHANGED <<payment_orders, enrollments, courses, users, now, env>>

\* POST /create-paypal with a complete body whose amount is the required one
\* (amountValid) or the bare catalog price.
CreatePaypal(i, u, c, amountValid) ==
  CreatePaypalRequest(i, u, c, u,
                      IF amountValid THEN Num(requiredAmount(c)) ELSE Num(priceUSD(c)))

\* calculateFees(amount, paymentMethod) of the /create-order routes.
calculateFeesOrders(amount, paymentMethod) ==
  LET paymentFeeRate == CASE paymentMethod = "paychangu" -> 30
                          [] paymentMethod = "paypal" -> 29
                          [] paymentMethod = "card" -> 35
                          [] paymentMethod = "bank" -> 0
                          [] OTHER -> 30
      fixedFee == IF paymentMethod = "paypal" THEN 30 * Cent ELSE 0
      platformFee == Rate(amount, 100)
      paymentFee == Rate(amount, paymentFeeRate) + fixedFee
  IN [amount |-> toFixed2(Num(amount)).v,
      platformFee |-> toFixed2(Num(platformFee)).v,
      paymentFee |-> toFixed2(Num(paymentFee)).v,
      totalAmount |-> toFixed2(Num(amount + platformFee + paymentFee)).v]

\* POST /create-order: userId, courseId, amount and paymentMethod come from the
\* body; the `payment_orders` document is set under its orderId.
CreateOrderRequest(i, u, c, amount, m, r) ==
  /\ CanStart(i)
  /\ LET id == generateOrderIdOrders(r)
         args == [userId |-> u, courseId |-> c, amount |-> amount]
         fees == calculateFeesOrders(amount.v, m)
     IN IF u = Missing \/ c = Missing \/ Falsy(amount)
        THEN /\ Answer(i, "create-order", args, 400, "Missing required fields")
             /\ UNCHANGED payment_orders
        ELSE /\ payment_orders' = SetDoc(payment_orders, id,
                  [orderId |-> id, userId |-> u, courseId |-> c, status |-> "pending",
                   amount |-> fees.amount, platformFee |-> fees.platformFee,
                   paymentFee |-> fees.paymentFee, totalAmount |-> fees.totalAmount,
                   paymentMethod |-> m,
                   paymentStatus |-> "none", createdAt |-> now,
                   expiresAt |-> now + OrderTtlMs])
             /\ Answer(i, "create-order", args, 200, "created")
  /\ UNCHANGED <<payments, enrollments, courses, users, now, env>>

\* POST /create-order for the catalog price, paid by paychangu.
CreateOrder(i, u, c, r) ==
  CreateOrderRequest(i, u, c, Num(priceUSD(c)), "paychangu", r)

\* ------------------------------------------- enrollUserInCourse (payment routes)
\* The request's locals u, c, pid are the arguments of enrollUserInCourse.
\* The query "already enrolled?".
EnrollQuery(i) ==
  /\ reqs[i].pc = "enroll_query"
  /\ IF WhereUserCourse(reqs[i].u, reqs[i].c) # {}
     THEN Finish(i, IF reqs[i].kind = "enroll-user" THEN 400 ELSE 200,
                 "Already enrolled")
     ELSE Goto(i, "enroll_set")
  /\ UNCHANGED <<stores, now, env>>

\* enrollmentRef.set on a document with an auto-generated id.
EnrollSet(i) ==
  /\ reqs[i].pc = "enroll_set"
  /\ enrollments' = SetDoc(enrollments, AutoId(enrollments),
        [userId |-> reqs[i].u, courseId |-> reqs[i].c, paymentId |-> reqs[i].pid,
         orderId |-> NoOrder, status |-> "active"])
  /\ Goto(i, "enroll_user")
  /\ UNCHANGED <<payments, payment_orders, courses, users, now, env>>

\* userRef.update: enrolledCourses arrayUnion(courseId); update() of a missing
\* document throws, enrollUserInCourse rethrows and the route answers 500.
EnrollUserUpdate(i) ==
  /\ reqs[i].pc = "enroll_user"
  /\ IF reqs[i].u \in DOMAIN users
     THEN /\ users' = [users EXCEPT ![reqs[i].u] = @ \cup {reqs[i].c}]
          /\ Goto(i, "enroll_course")
     ELSE /\ Finish(i, 500, "failed")
          /\ UNCHANGED users
  /\ UNCHANGED <<payments, payment_orders, enrollments, courses, now, env>>

\* courseRef.update: totalEnrollments increment(1); the e-mail; the return.
EnrollCourseUpdate(i) ==
  /\ reqs[i].pc = "enroll_course"
  /\ IF reqs[i].c \in Courses
     THEN /\ courses' = [courses EXCEPT ![reqs[i].c].totalEnrollments = @ + 1]
          /\ Finish(i, 200, "enrolled")
     ELSE /\ Finish(i, 500, "failed")
          /\ UNCHANGED courses
  /\ UNCHANGED <<payments, payment_orders, enrollments, users, now, env>>

\* POST /enroll-user: courseId and paymentId come from the request body.
EnrollUser(i, u, c, pid) ==
  /\ CanStart(i)
  /\ reqs' = [reqs EXCEPT ![i] = [pc |-> "enroll_query", kind |-> "enroll-user",
                                   args |-> [userId |-> u, courseId |-> c],
                                   u |-> u, c |-> c, pid |-> pid]]
  /\ UNCHANGED <<stores, now, env>>

\* ------------------------------------------------------- POST /verify-payment
\* verifyPayment(paymentData, method) of the payment routes: what the provider check
\* can answer for the document that was read.  bank_transfer and an unknown method
\* never succeed; paychangu and paypal need their provider reference.
CanVerify(details, method) ==
  \/ method = "paychangu" /\ HasField(details, "transactionId")
  \/ method = "paypal" /\ HasField(details, "paypalOrderId")

\* A verify-payment that checks no ownership.
VerifyPaymentOfAnyUser(i, authUser, byOrder, key, method) ==
  /\ CanStart(i)
  /\ LET args == [userId |-> authUser, key |-> key, method |-> method,
                  byOrder |-> byOrder]
         docs == IF byOrder THEN WhereOrderId(payments, key) ELSE {key} \cap DOMAIN payments
     IN IF docs = {}
        THEN Answer(i, "verify-payment", args, 404, "Payment not found")
        ELSE \E d \in docs :
               reqs' = [reqs EXCEPT ![i] =
                  [pc |-> "v_update", kind |-> "verify-payment", args |-> args,
                   doc |-> d, read |-> payments[d].status,
                   details |-> payments[d].paymentDetails,
                   u |-> authUser, c |-> payments[d].courseId, pid |-> d]]
  /\ UNCHANGED <<stores, now, env>>

\* The lookup (by paymentId, or by orderId with limit 1), the read and the ownership check.
VerifyPayment(i, authUser, byOrder, key, method) ==
  /\ CanStart(i)
  /\ LET args == [userId |-> authUser, key |-> key, method |-> method,
                  byOrder |-> byOrder]
         docs == IF byOrder THEN WhereOrderId(payments, key) ELSE {key} \cap DOMAIN payments
     IN IF docs = {}
        THEN Answer(i, "verify-payment", args, 404, "Payment not found")
        ELSE \E d \in docs :
               IF payments[d].userId # authUser
               THEN Answer(i, "verify-payment", args, 403, "Access denied")
               ELSE reqs' = [reqs EXCEPT ![i] =
                       [pc |-> "v_update", kind |-> "verify-payment", args |-> args,
                        doc |-> d, read |-> payments[d].status,
                        details |-> payments[d].paymentDetails,
                        u |-> authUser, c |-> payments[d].courseId, pid |-> d]]
  /\ UNCHANGED <<stores, now, env>>

\* A status write that also stores the method named in the request.
VerifyUpdateStoringMethod(i, providerSuccess, t) ==
  /\ reqs[i].pc = "v_update"
  /\ IF CanVerify(reqs[i].details, reqs[i].args.method) /\ providerSuccess
     THEN /\ payments' = [payments EXCEPT
                ![reqs[i].doc].status = "completed",
                ![reqs[i].doc].method = reqs[i].args.method,
                ![reqs[i].doc].paymentDetails =
                   PutField(PutField(reqs[i].details, "verifiedAt", now),
                            "providerTransactionId", t)]
          /\ Goto(i, "enroll_query")
     ELSE /\ payments' = [payments EXCEPT ![reqs[i].doc] =
                            PutField([@ EXCEPT !.status = "failed",
                                               !.method = reqs[i].args.method],
                                     "verificationError", "error")]
          /\ Finish(i, 200, "failed")
  /\ UNCHANGED <<payment_orders, enrollments, courses, users, now, env>>

\* The provider's answer and the status write that follows it.
VerifyUpdate(i, providerSuccess, t) ==
  /\ reqs[i].pc = "v_update"
  /\ IF CanVerify(reqs[i].details, reqs[i].args.method) /\ providerSuccess
     THEN /\ payments' = [payments EXCEPT
                ![reqs[i].doc].status = "completed",
                ![reqs[i].doc].paymentDetails =
                   PutField(PutField(reqs[i].details, "verifiedAt", now),
                            "providerTransactionId", t)]
          /\ Goto(i, "enroll_query")
     ELSE /\ payments' = [payments EXCEPT ![reqs[i].doc] =
                            PutField([@ EXCEPT !.status = "failed"],
                                     "verificationError", "error")]
          /\ Finish(i, 200, "failed")
  /\ UNCHANGED <<payment_orders, enrollments, courses, users, now, env>>

\* --------------------------------------- webhooks of the payment routes module
\* verifyPaychanguWebhook(payload, signature)
verifyPaychanguWebhook(sig) == IF ~env.paychanguSecret THEN TRUE ELSE TRUE
\* verifyPayPalWebhook(payload, signature)
verifyPayPalWebhook(sig) == IF ~env.paypalWebhookId THEN TRUE ELSE TRUE

\* The status switch of POST /paychangu-webhook.
NewStatus(status) ==
  CASE status = "SUCCESS" -> "completed"
    [] status = "FAILED" -> "failed"
    [] status = "PENDING" -> "pending"
    [] OTHER -> "processing"

\* POST /paychangu-webhook: signature check and order lookup.
PaychanguWebhook(i, sig, status, ref, t) ==
  /\ CanStart(i)
  /\ LET args == [sig |-> sig, status |-> status, ref |-> ref]
         docs == WhereOrderId(payments, ref)
     IN IF ~verifyPaychanguWebhook(sig)
        THEN Answer(i, "paychangu-webhook", args, 401, "Invalid signature")
        ELSE IF docs = {}
        THEN Answer(i, "paychangu-webhook", args, 404, "Payment not found")
        ELSE \E d \in docs :
               reqs' = [reqs EXCEPT ![i] =
                  [pc |-> "pw_update", kind |-> "paychangu-webhook", args |-> args,
                   doc |-> d, read |-> payments[d].status, t |-> t,
                   u |-> payments[d].userId, c |-> payments[d].courseId, pid |-> d]]
  /\ UNCHANGED <<stores, now, env>>

\* POST /paychangu-webhook: the status write.
PaychanguWebhookUpdate(i) ==
  /\ reqs[i].pc = "pw_update"
  /\ payments' = [payments EXCEPT
        ![reqs[i].doc].status = NewStatus(reqs[i].args.status),
        ![reqs[i].doc].paymentDetails =
           PutField(PutField(PutField(@, "webhookReceived", TRUE),
                             "webhookStatus", reqs[i].args.status),
                    "transactionId", reqs[i].t)]
  /\ IF reqs[i].args.status = "SUCCESS"
     THEN Goto(i, "enroll_query")
     ELSE Finish(i, 200, NewStatus(reqs[i].args.status))
  /\ UNCHANGED <<payment_orders, enrollments, courses, users, now, env>>

\* POST /paypal-webhook: signature check, event type and order lookup.
PaypalWebhook(i, sig, event, ref) ==
  /\ CanStart(i)
  /\ LET args == [sig |-> sig, status |-> event, ref |-> ref]
         docs == WherePaypalOrderId(ref)
     IN IF ~verifyPayPalWebhook(sig)
        THEN Answer(i, "paypal-webhook", args, 401, "Invalid signature")
        ELSE IF event # "PAYMENT.CAPTURE.COMPLETED" \/ docs = {}
        THEN Answer(i, "paypal-webhook", args, 200, "ignored")
        ELSE \E d \in docs :
               reqs' = [reqs EXCEPT ![i] =
                  [pc |-> "ppw_update", kind |-> "paypal-webhook", args |-> args,
                   doc |-> d, read |-> payments[d].status,
                   u |-> payments[d].userId, c |-> payments[d].courseId, pid |-> d]]
  /\ UNCHANGED <<stores, now, env>>

\* POST /paypal-webhook: the status write.
PaypalWebhookUpdate(i, cap) ==
  /\ reqs[i].pc = "ppw_update"
  /\ payments' = [payments EXCEPT
        ![reqs[i].doc].status = "completed",
        ![reqs[i].doc].paymentDetails =
           PutField(PutField(@, "captureId", cap), "captureStatus", "COMPLETED")]
  /\ Goto(i, "enroll_query")
  /\ UNCHANGED <<payment_orders, enrollments, courses, users, now, env>>

\* ------------------------------------------------ POST /webhooks/paychangu
\* The signatures a request can carry: none; 64 hex digits that are no HMAC of the
\* payload; a string of another length; the HMAC under the secret configured in
\* PAYCHANGU_WEBHOOK_SECRET; the HMAC under the literal default of that constant.
Sigs == {"missing", "forged", "forged_short", "valid", "valid_default"}

\* Made by the provider, who alone holds the configured secret.
Authentic(sig) == sig = "valid"

\* verifyPaychanguSignature(req): "true", "false", or "throw" when timingSafeEqual
\* is handed buffers of different lengths.
verifyPaychanguSignature(sig) ==
  IF sig = "missing" THEN "false"
  ELSE IF sig = "forged_short" THEN "throw"
  ELSE IF sig = (IF env.paychanguSecret THEN "valid" ELSE "valid_default") THEN "true"
  ELSE "false"

\* The order lookup of handlePaymentSuccess/Failed/Pending and of the PayPal
\* capture handlers: payment_orders where orderId == reference, limit 1.
\* found: the handler's next step; the handlers return silently on no match.
HandlerLookup(i, kind, args, ref, t, found) ==
  LET docs == WhereOrderId(payment_orders, ref)
  IN IF docs = {}
     THEN Answer(i, kind, args, 200, "received")
     ELSE \E d \in docs :
            reqs' = [reqs EXCEPT ![i] =
               [pc |-> found, kind |-> kind, args |-> args, doc |-> d,
                read |-> payment_orders[d].status, t |-> t,
                u |-> payment_orders[d].userId, c |-> payment_orders[d].courseId,
                oid |-> payment_orders[d].orderId]]

\* POST /webhooks/paychangu: signature check, event switch and order lookup.
WebhooksPaychangu(i, sig, type, ref, t) ==
  /\ CanStart(i)
  /\ LET args == [sig |-> sig, status |-> type, ref |-> ref]
         kind == "webhooks/paychangu"
     IN CASE verifyPaychanguSignature(sig) = "throw" ->
               Answer(i, kind, args, 500, "error")
          [] verifyPaychanguSignature(sig) = "false" ->
               Answer(i, kind, args, 401, "Invalid signature")
          [] OTHER ->
               CASE type = "payment.success" -> HandlerLookup(i, kind, args, ref, t, "hs_update")
                 [] type = "payment.failed" -> HandlerLookup(i, kind, args, ref, t, "hf_update")
                 [] type = "payment.pending" -> HandlerLookup(i, kind, args, ref, t, "hp_update")
                 [] OTHER -> Answer(i, kind, args, 200, "received")
  /\ UNCHANGED <<stores, now, env>>

\* handlePaymentSuccess / handlePaymentCaptureCompleted: the order update.
HandleSuccessUpdate(i) ==
  /\ reqs[i].pc = "hs_update"
  /\ payment_orders' = [payment_orders EXCEPT ![reqs[i].doc].status = "completed",
                                               ![reqs[i].doc].paymentStatus = "completed"]
  /\ Goto(i, "hs_payment")
  /\ UNCHANGED <<payments, enrollments, courses, users, now, env>>

\* paymentMethod of the payment record a webhook handler writes.
HandlerMethod(kind) == IF kind = "webhooks/paychangu" THEN "paychangu" ELSE "paypal"

\* A handler that writes its payment record under an auto-generated id.
HandleSuccessPaymentUnderAutoId(i) ==
  /\ reqs[i].pc = "hs_payment"
  /\ payments' = SetDoc(payments, AutoId(payments),
        [orderId |-> reqs[i].oid, userId |-> reqs[i].u, courseId |-> reqs[i].c,
         method |-> "none", paymentMethod |-> HandlerMethod(reqs[i].kind),
         transactionId |-> reqs[i].t, status |-> "completed", history |-> <<>>,
         paymentDetails |-> NoDetails, createdAt |-> now])
  /\ Goto(i, "we_set")
  /\ UNCHANGED <<payment_orders, enrollments, courses, users, now, env>>

\* handlePaymentSuccess / handlePaymentCaptureCompleted: the payment record
\* `PCHG-${transaction_id}` / `PAYPAL-${capture id}`.  (The record has no `method`
\* field; it names its provider in paymentMethod.)
HandleSuccessPayment(i) ==
  /\ reqs[i].pc = "hs_payment"
  /\ payments' = SetDoc(payments,
        <<IF reqs[i].kind = "webhooks/paychangu" THEN "PCHG" ELSE "PAYPAL", reqs[i].t, 0>>,
        [orderId |-> reqs[i].oid, userId |-> reqs[i].u, courseId |-> reqs[i].c,
         method |-> "none", paymentMethod |-> HandlerMethod(reqs[i].kind),
         transactionId |-> reqs[i].t, status |-> "completed", history |-> <<>>,
         paymentDetails |-> NoDetails, createdAt |-> now])
  /\ Goto(i, "we_set")
  /\ UNCHANGED <<payment_orders, enrollments, courses, users, now, env>>

\* enrollUserInCourse of the webhook handlers: set on `${userId}_${courseId}`.
WebhookEnrollSet(i) ==
  /\ reqs[i].pc = "we_set"
  /\ enrollments' = SetDoc(enrollments, EnrollmentId(reqs[i].u, reqs[i].c),
        [userId |-> reqs[i].u, courseId |-> reqs[i].c, paymentId |-> NoDoc,
         orderId |-> reqs[i].oid, status |-> "active"])
  /\ Goto(i, "we_count")
  /\ UNCHANGED <<payments, payment_orders, courses, users, now, env>>

\* enrollUserInCourse of the webhook handlers: enrollmentCount increment(1).
WebhookEnrollCount(i) ==
  /\ reqs[i].pc = "we_count"
  /\ IF reqs[i].c \in Courses
     THEN /\ courses' = [courses EXCEPT ![reqs[i].c].enrollmentCount = @ + 1]
          /\ Finish(i, 200, "received")
     ELSE /\ Finish(i, 500, "error")
          /\ UNCHANGED courses
  /\ UNCHANGED <<payments, payment_orders, enrollments, users, now, env>>

\* handlePaymentFailed / handlePaymentCaptureDenied: the order update.
HandleFailedUpdate(i) ==
  /\ reqs[i].pc = "hf_update"
  /\ payment_orders' = [payment_orders EXCEPT
        ![reqs[i].doc].status = "failed",
        ![reqs[i].doc].paymentStatus =
           IF reqs[i].kind = "webhooks/paypal" THEN "denied" ELSE "failed"]
  /\ Finish(i, 200, "received")
  /\ UNCHANGED <<payments, enrollments, courses, users, now, env>>

\* handlePaymentPending / handlePaymentCapturePending: the order update.
HandlePendingUpdate(i) ==
  /\ reqs[i].pc = "hp_update"
  /\ payment_orders' = [payment_orders EXCEPT ![reqs[i].doc].status = "pending",
                                               ![reqs[i].doc].paymentStatus = "pending"]
  /\ Finish(i, 200, "received")
  /\ UNCHANGED <<payments, enrollments, courses, users, now, env>>

\* ---------------------------------------------------- POST /webhooks/paypal
\* verifyPaypalSignature(req): the headers and PAYPAL_WEBHOOK_ID are present.
verifyPaypalSignature(sig) == ~(sig = "missing" \/ ~env.paypalWebhookId)

\* POST /webhooks/paypal: the check (production only), event switch and lookup.
WebhooksPaypal(i, sig, event, ref, cap) ==
  /\ CanStart(i)
  /\ LET args == [sig |-> sig, status |-> event, ref |-> ref]
         kind == "webhooks/paypal"
     IN IF env.production /\ ~verifyPaypalSignature(sig)
        THEN Answer(i, kind, args, 401, "Invalid signature")
        ELSE CASE event = "PAYMENT.CAPTURE.COMPLETED" ->
                    HandlerLookup(i, kind, args, ref, cap, "hs_update")
               [] event = "PAYMENT.CAPTURE.DENIED" ->
                    HandlerLookup(i, kind, args, ref, cap, "hf_update")
               [] event = "PAYMENT.CAPTURE.PENDING" ->
                    HandlerLookup(i, kind, args, ref, cap, "hp_update")
               [] event = "PAYMENT.CAPTURE.REFUNDED" ->
                    HandlerLookup(i, kind, args, ref, cap, "hr_update")
               [] OTHER -> Answer(i, kind, args, 200, "received")
  /\ UNCHANGED <<stores, now, env>>

\* handlePaymentCaptureRefunded: the order update.
HandleRefundedUpdate(i) ==
  /\ reqs[i].pc = "hr_update"
  /\ payment_orders' = [payment_orders EXCEPT ![reqs[i].doc].status = "refunded",
                                               ![reqs[i].doc].paymentStatus = "refunded"]
  /\ Goto(i, "hr_enroll")
  /\ UNCHANGED <<payments, enrollments, courses, users, now, env>>

\* handlePaymentCaptureRefunded: the enrollment update; update() of a missing
\* document throws, and the handler's catch swallows it.
HandleRefundedEnrollment(i) ==
  /\ reqs[i].pc = "hr_enroll"
  /\ LET id == EnrollmentId(reqs[i].u, reqs[i].c)
     IN IF id \in DOMAIN enrollments
        THEN enrollments' = [enrollments EXCEPT ![id].status = "refunded"]
        ELSE UNCHANGED enrollments
  /\ Finish(i, 200, "received")
  /\ UNCHANGED <<payments, payment_orders, courses, users, now, env>>

\* ------------------------------------------------ POST /api/enroll/:courseId
ApiEnroll(i, u, c) ==
  /\ CanStart(i)
  /\ LET args == [userId |-> u, courseId |-> c]
     IN IF c \notin Courses
        THEN Answer(i, "api/enroll", args, 404, "Course not found")
        ELSE IF EnrollmentId(u, c) \in DOMAIN enrollments
        THEN Answer(i, "api/enroll", args, 200, "Already enrolled")
        ELSE reqs' = [reqs EXCEPT ![i] = [pc |-> "ae_set", kind |-> "api/enroll",
                                          args |-> args, u |-> u, c |-> c]]
  /\ UNCHANGED <<stores, now, env>>

\* enrollmentRef.set(enrollmentData)
ApiEnrollSet(i) ==
  /\ reqs[i].pc = "ae_set"
  /\ enrollments' = SetDoc(enrollments, EnrollmentId(reqs[i].u, reqs[i].c),
        [userId |-> reqs[i].u, courseId |-> reqs[i].c, paymentId |-> NoDoc,
         orderId |-> NoOrder, status |-> "active"])
  /\ Goto(i, "ae_count")
  /\ UNCHANGED <<payments, payment_orders, courses, users, now, env>>

\* enrollmentCount increment(1) (the courseProgress record that follows is
\* outside the modelled collections).
ApiEnrollCount(i) ==
  /\ reqs[i].pc = "ae_count"
  /\ courses' = [courses EXCEPT ![reqs[i].c].enrollmentCount = @ + 1]
  /\ Finish(i, 200, "Successfully enrolled")
  /\ UNCHANGED <<payments, payment_orders, enrollments, users, now, env>>

\* ------------------------------------------------- PaymentService methods
\* updatePaymentStatus(paymentId, status, message): update() throws on a missing
\* document and the method returns success: false.
updatePaymentStatus(i, pid, status) ==
  /\ CanStart(i)
  /\ LET args == [key |-> pid, status |-> status]
     IN IF pid \notin DOMAIN payments
        THEN /\ Answer(i, "updatePaymentStatus", args, 0, "failed")
             /\ UNCHANGED payments
        ELSE /\ payments' = [payments EXCEPT
                   ![pid].status = status,
                   ![pid].history = ArrayUnion(@, HistoryEntry(status, ""))]
             /\ Answer(i, "updatePaymentStatus", args, 0, "ok")
  /\ UNCHANGED <<payment_orders, enrollments, courses, users, now, env>>

\* refundPayment(paymentId, reason)
refundPayment(i, pid) ==
  /\ CanStart(i)
  /\ LET args == [key |-> pid, status |-> "refunded"]
     IN IF pid \notin DOMAIN payments
        THEN /\ Answer(i, "refundPayment", args, 0, "failed")
             /\ UNCHANGED payments
        ELSE /\ payments' = [payments EXCEPT ![pid] =
                   PutField([@ EXCEPT
                               !.status = "refunded",
                               !.history = ArrayUnion(@, HistoryEntry("refunded",
                                                                      "Payment refunded: "))],
                            "refund", [reason |-> "", processedAt |-> now])]
             /\ Answer(i, "refundPayment", args, 0, "ok")
  /\ UNCHANGED <<payment_orders, enrollments, courses, users, now, env>>

\* PaymentService.verifyPayment(paymentId): the read.
verifyPayment(i, pid) ==
  /\ CanStart(i)
  /\ LET args == [key |-> pid, status |-> "completed"]
     IN IF pid \notin DOMAIN payments
        THEN Answer(i, "verifyPayment", args, 0, "failed")
        ELSE reqs' = [reqs EXCEPT ![i] = [pc |-> "sv_update", kind |-> "verifyPayment",
                                          args |-> args, doc |-> pid,
                                          read |-> payments[pid].status]]
  /\ UNCHANGED <<stores, now, env>>

\* PaymentService.verifyPayment(paymentId): the write.
verifyPaymentUpdate(i) ==
  /\ reqs[i].pc = "sv_update"
  /\ payments' = [payments EXCEPT
        ![reqs[i].doc].status = "completed",
        ![reqs[i].doc].history =
           ArrayUnion(@, HistoryEntry("completed", "Payment verified and completed"))]
  /\ Finish(i, 0, "ok")
  /\ UNCHANGED <<payment_orders, enrollments, courses, users, now, env>>

\* ------------------------------------------------ POST /uploads/bank-proof
\* POST /uploads/bank-proof: the checks of the uploaded file (fileOk: a file is
\* present, of an allowed type, of at most 10 MB); orderId and userId come from
\* the body.
UploadBankProof(i, u, orderId, bodyUserId, fileOk) ==
  /\ CanStart(i)
  /\ LET args == [userId |-> u, orderId |-> orderId, bodyUserId |-> bodyUserId]
     IN IF ~fileOk
        THEN Answer(i, "uploads/bank-proof", args, 400, "No file uploaded")
        ELSE reqs' = [reqs EXCEPT ![i] = [pc |-> "bp_upload", kind |-> "uploads/bank-proof",
                                          args |-> args]]
  /\ UNCHANGED <<stores, now, env>>

\* POST /uploads/bank-proof after uploadToGoogleDrive answered: the payment
\* record of the bank transfer is set, or the request fails with 500.  The
\* document has no courseId, paymentDetails or history: they are written here
\* with the values a reader of the absent field works with.
UploadBankProofSet(i, driveOk) ==
  /\ reqs[i].pc = "bp_upload"
  /\ IF ~driveOk
     THEN /\ Finish(i, 500, "Upload failed")
          /\ UNCHANGED payments
     ELSE /\ payments' = SetDoc(payments, AutoId(payments),
                [orderId |-> reqs[i].args.orderId, userId |-> reqs[i].args.bodyUserId,
                 courseId |-> Missing, method |-> "bank_transfer",
                 status |-> "pending_verification",
                 proof |-> [uploadedAt |-> now],
                 history |-> <<>>, paymentDetails |-> NoDetails, createdAt |-> now])
          /\ Finish(i, 200, "Proof uploaded successfully")
  /\ UNCHANGED <<payment_orders, enrollments, courses, users, now, env>>

\* ---------------------------------------------------------------- requests
Methods == {"paychangu", "paypal", "bank_transfer"}
PaychanguStatuses == {"SUCCESS", "FAILED", "PENDING", "UNKNOWN"}
PaychanguEvents == {"payment.success", "payment.failed", "payment.pending", "payment.other"}
PaypalEvents == {"PAYMENT.CAPTURE.COMPLETED", "PAYMENT.CAPTURE.DENIED",
                 "PAYMENT.CAPTURE.PENDING", "PAYMENT.CAPTURE.REFUNDED", "OTHER"}
Statuses == {"pending", "processing", "completed", "failed", "expired", "refunded"}

\* The order references a request can name: those of the stored documents and one
\* that no document has.
PaymentRefs == {payments[d].orderId : d \in DOMAIN payments} \cup {NoOrder}
PaypalRefs ==
  {payments[d].paymentDetails["paypalOrderId"] :
     d \in {x \in DOMAIN payments : HasField(payments[x].paymentDetails, "paypalOrderId")}}
  \cup {<<"PP", NoDoc>>}
OrderRefs == {payment_orders[d].orderId : d \in DOMAIN payment_orders} \cup {NoOrder}
PaymentIds == DOMAIN payments \cup {NoDoc}

\* The steps that continue a request already received.
Step(i) ==
  \/ \E ok \in BOOLEAN, t \in Txns : CreatePaychanguProvider(i, ok, t)
  \/ \E ok \in BOOLEAN : CreatePaypalProvider(i, ok)
  \/ \E ok \in BOOLEAN, t \in Txns : VerifyUpdate(i, ok, t)
  \/ PaychanguWebhookUpdate(i)
  \/ \E cap \in Txns : PaypalWebhookUpdate(i, cap)
  \/ EnrollQuery(i)
  \/ EnrollSet(i)
  \/ EnrollUserUpdate(i)
  \/ EnrollCourseUpdate(i)
  \/ HandleSuccessUpdate(i)
  \/ HandleSuccessPayment(i)
  \/ WebhookEnrollSet(i)
  \/ WebhookEnrollCount(i)
  \/ HandleFailedUpdate(i)
  \/ HandlePendingUpdate(i)
  \/ HandleRefundedUpdate(i)
  \/ HandleRefundedEnrollment(i)
  \/ ApiEnrollSet(i)
  \/ ApiEnrollCount(i)
  \/ verifyPaymentUpdate(i)
  \/ \E ok \in BOOLEAN : UploadBankProofSet(i, ok)

\* The arrival of a request, over every input.
Arrive(i) ==
  \/ \E u \in Users, c \in Courses \cup {NoCourse}, m \in Methods, a \in FeeAmounts,
        r \in Rands :
       createPaymentOrder(i, u, c, m, a, r)
  \/ \E u \in Users, c \in Courses \cup {NoCourse}, a, p \in BOOLEAN, r \in Rands :
       CreatePaychangu(i, u, c, a, p, r)
  \/ \E u \in Users, c \in Courses \cup {NoCourse}, a \in BOOLEAN :
       CreatePaypal(i, u, c, a)
  \/ \E u \in Users, c \in Courses \cup {NoCourse}, r \in Rands : CreateOrder(i, u, c, r)
  \/ \E u \in Users, byOrder \in BOOLEAN, m \in Methods \cup {"other"} :
       \E key \in (IF byOrder THEN PaymentRefs ELSE PaymentIds) :
         VerifyPayment(i, u, byOrder, key, m)
  \/ \E u \in Users, c \in Courses \cup {NoCourse}, pid \in PaymentIds : EnrollUser(i, u, c, pid)
  \/ \E sig \in Sigs, st \in PaychanguStatuses, ref \in PaymentRefs, t \in Txns :
       PaychanguWebhook(i, sig, st, ref, t)
  \/ \E sig \in Sigs, ev \in PaypalEvents, ref \in PaypalRefs : PaypalWebhook(i, sig, ev, ref)
  \/ \E sig \in Sigs, ev \in PaychanguEvents, ref \in OrderRefs, t \in Txns :
       WebhooksPaychangu(i, sig, ev, ref, t)
  \/ \E sig \in Sigs, ev \in PaypalEvents, ref \in OrderRefs, cap \in Txns :
       WebhooksPaypal(i, sig, ev, ref, cap)
  \/ \E u \in Users, c \in Courses \cup {NoCourse} : ApiEnroll(i, u, c)
  \/ \E pid \in PaymentIds, st \in Statuses : updatePaymentStatus(i, pid, st)
  \/ \E pid \in PaymentIds : refundPayment(i, pid)
  \/ \E pid \in PaymentIds : verifyPayment(i, pid)
  \/ \E u, b \in Users, ref \in PaymentRefs, ok \in BOOLEAN :
       UploadBankProof(i, u, ref, b, ok)

Next ==
  \/ Tick
  \/ \E i \in Slots : Arrive(i)
  \/ \E i \in Slots : Step(i)

Spec == Init /\ [][Next]_vars

\* ------------------------------------------------------------ scenarios
\* Each scenario is the program restricted to the requests named in it.

\* The enrollUserInCourse steps of the payment routes.
EnrollSteps(i) ==
  \/ EnrollQuery(i)
  \/ EnrollSet(i)
  \/ EnrollUserUpdate(i)
  \/ EnrollCourseUpdate(i)

\* The steps of the handlers of /webhooks/paychangu and /webhooks/paypal.
HandlerSteps(i) ==
  \/ HandleSuccessUpdate(i)
  \/ HandleSuccessPayment(i)
  \/ WebhookEnrollSet(i)
  \/ WebhookEnrollCount(i)

\* Orders are created and success events are delivered, and redelivered, to the
\* four webhook endpoints.
NextRedelivery ==
  \/ \E i \in Slots : CreatePaychangu(i, "u1", "c1", TRUE, TRUE, 1)
  \/ \E i \in Slots : CreatePaychanguProvider(i, TRUE, "t1")
  \/ \E i \in Slots : CreatePaypal(i, "u1", "c1", TRUE)
  \/ \E i \in Slots : CreatePaypalProvider(i, TRUE)
  \/ \E i \in Slots : CreateOrder(i, "u1", "c1", 1)
  \/ \E i \in Slots, ref \in PaymentRefs : PaychanguWebhook(i, "valid", "SUCCESS", ref, "t1")
  \/ \E i \in Slots : PaychanguWebhookUpdate(i)
  \/ \E i \in Slots, ref \in PaypalRefs :
       PaypalWebhook(i, "valid", "PAYMENT.CAPTURE.COMPLETED", ref)
  \/ \E i \in Slots : PaypalWebhookUpdate(i, "t1")
  \/ \E i \in Slots, sig \in {"valid", "valid_default"}, ref \in OrderRefs :
       WebhooksPaychangu(i, sig, "payment.success", ref, "t1")
  \/ \E i \in Slots, ref \in OrderRefs :
       WebhooksPaypal(i, "valid", "PAYMENT.CAPTURE.COMPLETED", ref, "t1")
  \/ \E i \in Slots : EnrollSteps(i)
  \/ \E i \in Slots : HandlerSteps(i)

SpecRedelivery == Init /\ [][NextRedelivery]_vars

\* One order, a verify-payment call and webhook deliveries for it, interleaved.
NextRace ==
  \/ \E i \in Slots : CreatePaychangu(i, "u1", "c1", TRUE, TRUE, 1)
  \/ \E i \in Slots : CreatePaychanguProvider(i, TRUE, "t1")
  \/ \E i \in Slots, pid \in PaymentIds : VerifyPayment(i, "u1", FALSE, pid, "paychangu")
  \/ \E i \in Slots, ok \in BOOLEAN : VerifyUpdate(i, ok, "t1")
  \/ \E i \in Slots, ref \in PaymentRefs : PaychanguWebhook(i, "valid", "SUCCESS", ref, "t1")
  \/ \E i \in Slots : PaychanguWebhookUpdate(i)
  \/ \E i \in Slots : EnrollSteps(i)

SpecRace == Init /\ [][NextRace]_vars

\* Every operation that writes an order's status, on both collections.
NextLifecycle ==
  \/ \E i \in Slots : createPaymentOrder(i, "u1", "c1", "paychangu", requiredAmount("c1"), 1)
  \/ \E i \in Slots : CreatePaychangu(i, "u1", "c1", TRUE, TRUE, 1)
  \/ \E i \in Slots, ok \in BOOLEAN : CreatePaychanguProvider(i, ok, "t1")
  \/ \E i \in Slots : CreateOrder(i, "u1", "c1", 1)
  \/ \E i \in Slots, pid \in PaymentIds, m \in {"paychangu", "bank_transfer"} :
       VerifyPayment(i, "u1", FALSE, pid, m)
  \/ \E i \in Slots, ok \in BOOLEAN : VerifyUpdate(i, ok, "t1")
  \/ \E i \in Slots, st \in {"SUCCESS", "PENDING", "UNKNOWN"}, ref \in PaymentRefs :
       PaychanguWebhook(i, "valid", st, ref, "t1")
  \/ \E i \in Slots : PaychanguWebhookUpdate(i)
  \/ \E i \in Slots, ev \in {"payment.success", "payment.failed", "payment.pending"},
        ref \in OrderRefs :
       WebhooksPaychangu(i, IF env.paychanguSecret THEN "valid" ELSE "valid_default",
                         ev, ref, "t1")
  \/ \E i \in Slots, ev \in {"PAYMENT.CAPTURE.DENIED", "PAYMENT.CAPTURE.REFUNDED"},
        ref \in OrderRefs :
       WebhooksPaypal(i, "valid", ev, ref, "t1")
  \/ \E i \in Slots, pid \in PaymentIds, st \in {"processing", "completed", "failed"} :
       updatePaymentStatus(i, pid, st)
  \/ \E i \in Slots, pid \in PaymentIds : refundPayment(i, pid)
  \/ \E i \in Slots, pid \in PaymentIds : verifyPayment(i, pid)
  \/ \E i \in Slots : verifyPaymentUpdate(i)
  \/ \E i \in Slots : EnrollSteps(i)
  \/ \E i \in Slots : HandlerSteps(i)
  \/ \E i \in Slots : HandleFailedUpdate(i)
  \/ \E i \in Slots : HandlePendingUpdate(i)
  \/ \E i \in Slots : HandleRefundedUpdate(i)
  \/ \E i \in Slots : HandleRefundedEnrollment(i)
  \/ Tick

SpecLifecycle == Init /\ [][NextLifecycle]_vars

\* The operations that create enrollment records.
NextEnroll ==
  \/ \E i \in Slots : CreatePaychangu(i, "u1", "c1", TRUE, TRUE, 1)
  \/ \E i \in Slots : CreatePaychanguProvider(i, TRUE, "t1")
  \/ \E i \in Slots : CreateOrder(i, "u1", "c1", 1)
  \/ \E i \in Slots, u \in Users, pid \in PaymentIds : VerifyPayment(i, u, FALSE, pid, "paychangu")
  \/ \E i \in Slots, ok \in BOOLEAN : VerifyUpdate(i, ok, "t1")
  \/ \E i \in Slots, ref \in PaymentRefs : PaychanguWebhook(i, "valid", "SUCCESS", ref, "t1")
  \/ \E i \in Slots : PaychanguWebhookUpdate(i)
  \/ \E i \in Slots, ref \in OrderRefs :
       WebhooksPaychangu(i, IF env.paychanguSecret THEN "valid" ELSE "valid_default",
                         "payment.success", ref, "t1")
  \/ \E i \in Slots, u \in Users, c \in Courses \cup {NoCourse}, pid \in PaymentIds :
       EnrollUser(i, u, c, pid)
  \/ \E i \in Slots, u \in Users, c \in Courses \cup {NoCourse} : ApiEnroll(i, u, c)
  \/ \E i \in Slots : ApiEnrollSet(i)
  \/ \E i \in Slots : ApiEnrollCount(i)
  \/ \E i \in Slots : EnrollSteps(i)
  \/ \E i \in Slots : HandlerSteps(i)

SpecEnroll == Init /\ [][NextEnroll]_vars

\* The requests that create orders in `payments`, over every input, and the
\* status writes that end an order.
NextCreate ==
  \/ \E i \in Slots, u \in Users, c \in Courses \cup {NoCourse},
        m \in {"paychangu", "bank_transfer"}, r \in Rands :
       createPaymentOrder(i, u, c, m, requiredAmount("c1"), r)
  \/ \E i \in Slots, u \in Users, a, p \in BOOLEAN, r \in Rands :
       CreatePaychangu(i, u, "c1", a, p, r)
  \/ \E i \in Slots, ok \in BOOLEAN : CreatePaychanguProvider(i, ok, "t1")
  \/ \E i \in Slots, u \in Users, a \in BOOLEAN : CreatePaypal(i, u, "c1", a)
  \/ \E i \in Slots, ok \in BOOLEAN : CreatePaypalProvider(i, ok)
  \/ \E i \in Slots, pid \in PaymentIds, st \in {"completed", "failed"} :
       updatePaymentStatus(i, pid, st)
  \/ Tick

SpecCreate == Init /\ [][NextCreate]_vars

\* The four webhook endpoints, over every signature, on stored and unknown orders.
NextSignature ==
  \/ \E i \in Slots : CreatePaychangu(i, "u1", "c1", TRUE, TRUE, 1)
  \/ \E i \in Slots : CreatePaychanguProvider(i, TRUE, "t1")
  \/ \E i \in Slots : CreatePaypal(i, "u1", "c1", TRUE)
  \/ \E i \in Slots : CreatePaypalProvider(i, TRUE)
  \/ \E i \in Slots : CreateOrder(i, "u1", "c1", 1)
  \/ \E i \in Slots, sig \in Sigs, ref \in PaymentRefs :
       PaychanguWebhook(i, sig, "SUCCESS", ref, "t1")
  \/ \E i \in Slots : PaychanguWebhookUpdate(i)
  \/ \E i \in Slots, sig \in Sigs, ref \in PaypalRefs :
       PaypalWebhook(i, sig, "PAYMENT.CAPTURE.COMPLETED", ref)
  \/ \E i \in Slots : PaypalWebhookUpdate(i, "t1")
  \/ \E i \in Slots, sig \in Sigs, ref \in OrderRefs :
       WebhooksPaychangu(i, sig, "payment.success", ref, "t1")
  \/ \E i \in Slots, sig \in Sigs, ref \in OrderRefs :
       WebhooksPaypal(i, sig, "PAYMENT.CAPTURE.DENIED", ref, "t1")
  \/ \E i \in Slots : EnrollSteps(i)
  \/ \E i \in Slots : HandlerSteps(i)
  \/ \E i \in Slots : HandleFailedUpdate(i)

SpecSignature == Init /\ [][NextSignature]_vars

\* ------------------------------------------------------------ properties
\* The history of an order document (payment_orders documents carry none).
HistoryOf(doc) == IF "history" \in DOMAIN doc THEN doc.history ELSE <<>>
CompletedEntries(doc) ==
  Cardinality({j \in 1..Len(HistoryOf(doc)) : HistoryOf(doc)[j].status = "completed"})
EnrollmentCount(u, c) == Cardinality(WhereUserCourse(u, c))

\* The successful-payment webhook requests that were answered 200 for an order.
SuccessDeliveries(kinds, event, ref) ==
  {i \in Slots : /\ Done(i)
                 /\ reqs[i].kind \in kinds
                 /\ reqs[i].args.status = event
                 /\ reqs[i].args.ref = ref
                 /\ reqs[i].http = 200}

PaymentDeliveries(d) ==
  SuccessDeliveries({"paychangu-webhook"}, "SUCCESS", payments[d].orderId)
  \cup (IF HasField(payments[d].paymentDetails, "paypalOrderId")
        THEN SuccessDeliveries({"paypal-webhook"}, "PAYMENT.CAPTURE.COMPLETED",
                               payments[d].paymentDetails["paypalOrderId"])
        ELSE {})
OrderDeliveries(d) ==
  SuccessDeliveries({"webhooks/paychangu"}, "payment.success", payment_orders[d].orderId)
  \cup SuccessDeliveries({"webhooks/paypal"}, "PAYMENT.CAPTURE.COMPLETED",
                         payment_orders[d].orderId)

\* C1: once the success webhook of an order has been delivered N >= 1 times and
\* every request has been answered, the order has exactly one 'completed' history
\* entry and its (userId, courseId) has exactly one enrollment.
C1_WebhookIdempotence ==
  Quiescent =>
    /\ \A d \in DOMAIN payments :
         PaymentDeliveries(d) # {} =>
           /\ CompletedEntries(payments[d]) = 1
           /\ EnrollmentCount(payments[d].userId, payments[d].courseId) = 1
    /\ \A d \in DOMAIN payment_orders :
         OrderDeliveries(d) # {} =>
           /\ CompletedEntries(payment_orders[d]) = 1
           /\ EnrollmentCount(payment_orders[d].userId, payment_orders[d].courseId) = 1

\* The enrollment half of C1 alone (the history half taken away).
C1_OneEnrollmentAfterDeliveries ==
  Quiescent =>
    /\ \A d \in DOMAIN payments :
         PaymentDeliveries(d) # {} =>
           EnrollmentCount(payments[d].userId, payments[d].courseId) = 1
    /\ \A d \in DOMAIN payment_orders :
         OrderDeliveries(d) # {} =>
           EnrollmentCount(payment_orders[d].userId, payment_orders[d].courseId) = 1

\* The verify-payment calls that completed an order, and the webhooks that did.
VerifiedOk(d) ==
  {i \in Slots : /\ Done(i)
                 /\ reqs[i].kind = "verify-payment"
                 /\ reqs[i].args.key = d
                 /\ reqs[i].http = 200
                 /\ reqs[i].result # "failed"}

\* C2: after a verify-payment whose provider check succeeded and a success webhook
\* for the same order have both been answered, in whatever interleaving, the order
\* is 'completed', has one 'completed' history entry and its pair one enrollment.
C2_RaceConvergence ==
  Quiescent =>
    \A d \in DOMAIN payments :
      (VerifiedOk(d) # {} /\ PaymentDeliveries(d) # {}) =>
        /\ payments[d].status = "completed"
        /\ EnrollmentCount(payments[d].userId, payments[d].courseId) = 1
        /\ CompletedEntries(payments[d]) = 1

\* The enrollment part of C2 alone.
C2_RaceOneEnrollment ==
  Quiescent =>
    \A d \in DOMAIN payments :
      (VerifiedOk(d) # {} /\ PaymentDeliveries(d) # {}) =>
        EnrollmentCount(payments[d].userId, payments[d].courseId) = 1

\* ------------------------------------------------------------- lifecycle
Terminal == {"completed", "failed", "expired", "refunded"}

\* A status step the state machine allows from a terminal status.
Absorbed(old, new) == new = old \/ (old = "completed" /\ new = "refunded")

\* C3: once an order is completed, failed, expired or refunded, no step changes
\* its status, except completed -> refunded.
C3_TerminalAbsorbing ==
  [][/\ \A d \in DOMAIN payments :
          payments[d].status \in Terminal =>
            Absorbed(payments[d].status, payments'[d].status)
     /\ \A d \in DOMAIN payment_orders :
          payment_orders[d].status \in Terminal =>
            Absorbed(payment_orders[d].status, payment_orders'[d].status)]_vars

\* C4: at most one enrollment record per (userId, courseId).
C4_OneEnrollmentPerPair ==
  \A u \in Users, c \in Courses \cup {NoCourse} : EnrollmentCount(u, c) <= 1

\* --------------------------------------------------------- duplicate guard
Active == {"pending", "processing", "completed"}

\* The orders the Duplicate Guard is to find for (u, c) at the present time.
ActiveOrders(u, c) ==
  {d \in DOMAIN payments : /\ payments[d].userId = u
                           /\ payments[d].courseId = c
                           /\ payments[d].status \in Active
                           /\ now - payments[d].createdAt <= WindowMs}

\* C5: at most one pending, processing or completed order per (userId, courseId)
\* inside the duplicate-suppression window.
C5_DuplicateGuard ==
  \A u \in Users, c \in Courses : Cardinality(ActiveOrders(u, c)) <= 1

CreateKinds == {"createPaymentOrder", "create-paychangu", "create-paypal"}

\* C6: a create request for a pair that has an active order inside the window
\* stores no new order document and is answered AlreadyExists.
C6_DuplicateSuppressed ==
  [][\A i \in Slots :
       (/\ reqs[i] = Idle
        /\ reqs'[i] # Idle
        /\ reqs'[i].kind \in CreateKinds
        /\ reqs'[i].args.courseId \in Courses
        /\ ActiveOrders(reqs'[i].args.userId, reqs'[i].args.courseId) # {})
       => /\ DOMAIN payments' = DOMAIN payments
          /\ reqs'[i].pc = "done"
          /\ reqs'[i].result = "AlreadyExists"]_vars

\* C7: an enrollment that carries a paymentId is created only while a completed
\* order of the same user and course exists.
C7_EnrollmentNeedsCompletedOrder ==
  [][\A e \in (DOMAIN enrollments') \ (DOMAIN enrollments) :
       enrollments'[e].paymentId # NoDoc =>
         \E d \in DOMAIN payments :
           /\ payments[d].userId = enrollments'[e].userId
           /\ payments[d].courseId = enrollments'[e].courseId
           /\ payments[d].status = "completed"]_vars

\* -------------------------------------------------------------- signatures
WebhookKinds == {"paychangu-webhook", "paypal-webhook", "webhooks/paychangu", "webhooks/paypal"}
BadSig(sig) == sig \in {"missing", "forged", "forged_short"}

\* The secret (webhook id) of a webhook endpoint's provider is configured.
Configured(kind) ==
  IF kind \in {"paychangu-webhook", "webhooks/paychangu"}
  THEN env.paychanguSecret
  ELSE env.paypalWebhookId

\* Request i takes a step.
Moves(i) == reqs'[i] # reqs[i]

\* C8: a webhook request with a missing or wrong signature is answered 401 and
\* none of its steps writes to a store.
C8_BadSignatureRejected ==
  [][\A i \in Slots :
       (/\ Moves(i)
        /\ reqs'[i].kind \in WebhookKinds
        /\ BadSig(reqs'[i].args.sig))
       => /\ UNCHANGED stores
          /\ reqs'[i].pc = "done"
          /\ reqs'[i].http = 401]_vars

\* C9: in a production configuration a webhook request writes to a store only if
\* its signature is the provider's, checked against the configured secret.
C9_ProductionVerified ==
  [][\A i \in Slots :
       (/\ env.production
        /\ Moves(i)
        /\ reqs'[i].kind \in WebhookKinds
        /\ stores' # stores)
       => /\ Authentic(reqs'[i].args.sig)
          /\ Configured(reqs'[i].kind)]_vars

\* The stored orders a webhook request's reference matches.
Matches(kind, ref) ==
  CASE kind = "paychangu-webhook" -> WhereOrderId(payments, ref)
    [] kind = "paypal-webhook" -> WherePaypalOrderId(ref)
    [] OTHER -> WhereOrderId(payment_orders, ref)

\* C10: a correctly signed webhook whose reference matches no stored order is
\* answered 200 at once and writes to no store.
C10_UnknownOrderAcknowledged ==
  [][\A i \in Slots :
       (/\ reqs[i] = Idle
        /\ reqs'[i] # Idle
        /\ reqs'[i].kind \in WebhookKinds
        /\ Authentic(reqs'[i].args.sig)
        /\ Configured(reqs'[i].kind)
        /\ Matches(reqs'[i].kind, reqs'[i].args.ref) = {})
       => /\ reqs'[i].pc = "done"
          /\ reqs'[i].http = 200
          /\ UNCHANGED stores]_vars

\* ------------------------------------------------- webhook answers, failures
\* Orders whose enrollment step fails: a user without a users/{uid} document in
\* `payments`, a course outside the catalog in `payment_orders`; success and
\* unknown events for them at the webhook endpoints, and verify-payment.
NextFailure ==
  \/ \E i \in Slots, u \in {"u1", NoProfile} : CreatePaychangu(i, u, "c1", TRUE, TRUE, 1)
  \/ \E i \in Slots : CreatePaychanguProvider(i, TRUE, "t1")
  \/ \E i \in Slots, c \in {"c1", NoCourse} : CreateOrder(i, "u1", c, 1)
  \/ \E i \in Slots, u \in {"u1", NoProfile}, pid \in PaymentIds :
       VerifyPayment(i, u, FALSE, pid, "paychangu")
  \/ \E i \in Slots : VerifyUpdate(i, TRUE, "t1")
  \/ \E i \in Slots, st \in {"SUCCESS", "UNKNOWN"}, ref \in PaymentRefs :
       PaychanguWebhook(i, "valid", st, ref, "t1")
  \/ \E i \in Slots : PaychanguWebhookUpdate(i)
  \/ \E i \in Slots, ev \in {"payment.success", "payment.other"}, ref \in OrderRefs :
       WebhooksPaychangu(i, "valid", ev, ref, "t1")
  \/ \E i \in Slots, ref \in OrderRefs :
       WebhooksPaypal(i, "valid", "PAYMENT.CAPTURE.COMPLETED", ref, "t1")
  \/ \E i \in Slots : EnrollSteps(i)
  \/ \E i \in Slots : HandlerSteps(i)

SpecFailure == Init /\ [][NextFailure]_vars

\* Request i is answered in this step.
Answered(i) == reqs[i].pc # "done" /\ reqs'[i].pc = "done"

\* C11: a webhook request that carries the provider's signature, at an endpoint
\* whose secret is configured, is answered 200 whatever the event, the order it
\* names and the outcome of its store writes and of its enrollment step.
C11_OnlySignatureFailures ==
  [][\A i \in Slots :
       (/\ Answered(i)
        /\ reqs'[i].kind \in WebhookKinds
        /\ Authentic(reqs'[i].args.sig)
        /\ Configured(reqs'[i].kind))
       => reqs'[i].http = 200]_vars

\* The part of C11 that the endpoints keep: a request answered 401 failed its
\* signature check and wrote nothing.
C11_Rejected401WroteNothing ==
  [][\A i \in Slots :
       (Answered(i) /\ reqs'[i].kind \in WebhookKinds /\ reqs'[i].http = 401)
       => (reqs[i] = Idle /\ UNCHANGED stores)]_vars

\* ------------------------------------------------ failed enrollment step
\* The steps of enrollUserInCourse, of the payment routes and of the handlers.
EnrollPcs == {"enroll_query", "enroll_set", "enroll_user", "enroll_course", "we_set", "we_count"}

\* Request i, having written its order 'completed', fails in its enrollment step.
EnrollmentFails(i) ==
  /\ reqs[i].pc \in EnrollPcs
  /\ "doc" \in DOMAIN reqs[i]
  /\ reqs'[i].pc = "done"
  /\ reqs'[i].http = 500

\* The order document request i works on, before and after the step.
OrderOf(i) ==
  IF reqs[i].kind \in {"webhooks/paychangu", "webhooks/paypal"}
  THEN payment_orders[reqs[i].doc]
  ELSE payments[reqs[i].doc]
OrderAfter(i) ==
  IF reqs[i].kind \in {"webhooks/paychangu", "webhooks/paypal"}
  THEN payment_orders'[reqs[i].doc]
  ELSE payments'[reqs[i].doc]

Flagged(doc) == "enrollmentPending" \in DOMAIN doc /\ doc["enrollmentPending"] = TRUE

\* C14: when the enrollment step of verify-payment or of a webhook handler fails,
\* the order's status is left as written and the order is flagged
\* enrollmentPending = true.
C14_EnrollmentPendingFlag ==
  [][\A i \in Slots :
       EnrollmentFails(i) =>
         /\ OrderAfter(i).status = OrderOf(i).status
         /\ Flagged(OrderAfter(i))]_vars

\* The first half of C14 alone: the failing step does not roll the status back.
C14_NoRollback ==
  [][\A i \in Slots :
       EnrollmentFails(i) => OrderAfter(i).status = OrderOf(i).status]_vars

\* An enrollment step has failed while its order is 'completed'.
C14_FailureReached ==
  \E i \in Slots :
    /\ Done(i) /\ reqs[i].http = 500
    /\ reqs[i].kind \in {"verify-payment", "paychangu-webhook", "webhooks/paychangu"}
    /\ \/ \E d \in DOMAIN payments : payments[d].status = "completed"
       \/ \E d \in DOMAIN payment_orders : payment_orders[d].status = "completed"

\* ------------------------------------------------------------------ expiry
\* Orders of both collections, the clock, and the success events and
\* verify-payment calls that reach them before or after their deadline; the one
\* operation that can write 'expired' is updatePaymentStatus.
NextExpiry ==
  \/ \E i \in Slots : CreatePaychangu(i, "u1", "c1", TRUE, TRUE, 1)
  \/ \E i \in Slots : CreatePaychanguProvider(i, TRUE, "t1")
  \/ \E i \in Slots : CreateOrder(i, "u1", "c1", 1)
  \/ \E i \in Slots, pid \in PaymentIds : VerifyPayment(i, "u1", FALSE, pid, "paychangu")
  \/ \E i \in Slots, ok \in BOOLEAN : VerifyUpdate(i, ok, "t1")
  \/ \E i \in Slots, ref \in PaymentRefs : PaychanguWebhook(i, "valid", "SUCCESS", ref, "t1")
  \/ \E i \in Slots : PaychanguWebhookUpdate(i)
  \/ \E i \in Slots, ref \in OrderRefs :
       WebhooksPaychangu(i, IF env.paychanguSecret THEN "valid" ELSE "valid_default",
                         "payment.success", ref, "t1")
  \/ \E i \in Slots, pid \in PaymentIds : updatePaymentStatus(i, pid, "expired")
  \/ \E i \in Slots : EnrollSteps(i)
  \/ \E i \in Slots : HandlerSteps(i)
  \/ Tick

SpecExpiry == Init /\ [][NextExpiry]_vars

\* The steps the server takes by itself: the continuation of a request it has
\* received.  The source starts no timer and no background job.
ServerSteps ==
  \E i \in Slots :
    \/ CreatePaychanguProvider(i, TRUE, "t1")
    \/ \E ok \in BOOLEAN : VerifyUpdate(i, ok, "t1")
    \/ PaychanguWebhookUpdate(i)
    \/ EnrollSteps(i)
    \/ HandlerSteps(i)

\* Every request received is served to its end and the clock keeps running;
\* whether further requests arrive is left open.
SpecExpiryLive ==
  Init /\ [][NextExpiry]_vars /\ WF_vars(ServerSteps) /\ WF_vars(Tick)

\* The deadline of an order: its stored expiresAt, or, for a `payments` document,
\* which stores none, creation time plus the Payment model's default.
ExpiresAt(doc) ==
  IF "expiresAt" \in DOMAIN doc THEN doc.expiresAt ELSE doc.createdAt + PaymentTtlMs

\* Still pending after its deadline.
Overdue(doc) == doc.status = "pending" /\ now > ExpiresAt(doc)

\* The stored orders a success event or a verify-payment call is for.
Targets(r) ==
  CASE r.kind = "verify-payment" ->
         {d \in DOMAIN payments : d = r.args.key /\ payments[d].userId = r.args.userId}
    [] r.kind = "paychangu-webhook" -> WhereOrderId(payments, r.args.ref)
    [] OTHER -> {}
OrderTargets(r) ==
  IF r.kind = "webhooks/paychangu" THEN WhereOrderId(payment_orders, r.args.ref) ELSE {}

\* A success event or verify-payment call that arrives for an order pending past
\* its deadline is answered at once and the order is moved to 'expired'.
LateEventExpires ==
  \A i \in Slots :
    (reqs[i] = Idle /\ reqs'[i] # Idle
     /\ reqs'[i].kind \in {"verify-payment", "paychangu-webhook", "webhooks/paychangu"})
    => /\ \A d \in Targets(reqs'[i]) :
            Overdue(payments[d]) =>
              (reqs'[i].pc = "done" /\ payments'[d].status = "expired")
       /\ \A d \in OrderTargets(reqs'[i]) :
            Overdue(payment_orders[d]) =>
              (reqs'[i].pc = "done" /\ payment_orders'[d].status = "expired")

\* No step moves an order that is pending past its deadline to 'completed'.
OverdueNeverCompleted ==
  /\ \A d \in DOMAIN payments :
       Overdue(payments[d]) => payments'[d].status # "completed"
  /\ \A d \in DOMAIN payment_orders :
       Overdue(payment_orders[d]) => payment_orders'[d].status # "completed"

\* C12: a success webhook or verify-payment call that arrives after an order's
\* expiresAt while the order is pending moves the order to 'expired' and is not
\* applied; no step completes such an order.
C12_ExpirySafety == [][LateEventExpires /\ OverdueNeverCompleted]_vars

\* The second half of C12 alone.
C12_OverdueNeverCompleted == [][OverdueNeverCompleted]_vars

\* The document ids the two collections can hold.
PaymentDocIds == {<<"auto", "", n>> : n \in 1..MaxReq}
OrderDocIds == {<<"MRTC-DATE", t * TickMs, r>> : t \in 0..MaxTime, r \in Rands}

\* C13: every order that is pending past its expiresAt eventually has status
\* 'expired'.
C13_ExpiryLiveness ==
  /\ \A d \in PaymentDocIds :
       [](((d \in DOMAIN payments) /\ Overdue(payments[d]))
            => <>((d \in DOMAIN payments) /\ payments[d].status = "expired"))
  /\ \A d \in OrderDocIds :
       [](((d \in DOMAIN payment_orders) /\ Overdue(payment_orders[d]))
            => <>((d \in DOMAIN payment_orders) /\ payment_orders[d].status = "expired"))

\* A call whose outcome is the record `verdict`; `result` names its type.
Returned(i, kind, args, http, verdict) ==
  reqs' = [reqs EXCEPT ![i] = [pc |-> "done", kind |-> kind, args |-> args,
                                 http |-> http, result |-> verdict.type,
                                 verdict |-> verdict]]

\* A call of PaymentService.validatePaymentAmount.
CallValidatePaymentAmount(i, required, paid) ==
  /\ CanStart(i)
  /\ Returned(i, "validatePaymentAmount", [required |-> required, paid |-> paid], 0,
              validatePaymentAmount(required, paid))
  /\ UNCHANGED <<stores, now, env>>

\* A call of PaymentProcessor.validateAmount.
CallValidateAmount(i, paid, required) ==
  /\ CanStart(i)
  /\ Returned(i, "validateAmount", [required |-> required, paid |-> paid], 0,
              validateAmount(paid, required))
  /\ UNCHANGED <<stores, now, env>>

\* POST /validate-amount {courseId, paidAmount}
ValidateAmountRoute(i, c, paid) ==
  /\ CanStart(i)
  /\ LET actualRequired == Num(requiredAmount(c))
         args == [courseId |-> c, required |-> actualRequired, paid |-> paid]
         validation == validatePaymentAmount(actualRequired, paid)
     IN IF c \notin Courses
        THEN Answer(i, "validate-amount", args, 404, "Course not found")
        ELSE IF ~validation.valid
        THEN Returned(i, "validate-amount", args, 400,
                      [valid |-> FALSE, type |-> validation.type,
                       details |-> [required |-> actualRequired, paid |-> paid,
                                    shortfall |-> Sub(actualRequired, paid)]])
        ELSE Returned(i, "validate-amount", args, 200,
                      [valid |-> TRUE, type |-> validation.type,
                       details |-> [required |-> actualRequired, paid |-> paid,
                                    overpayment |-> validation.overpayment]])
  /\ UNCHANGED <<stores, now, env>>

\* A call of PaymentProcessor.calculateTotal.
CallCalculateTotal(i, amount, method) ==
  /\ CanStart(i)
  /\ reqs' = [reqs EXCEPT ![i] = [pc |-> "done", kind |-> "calculateTotal",
                                   args |-> [amount |-> amount, method |-> method],
                                   http |-> 0, result |-> "fees",
                                   verdict |-> calculateTotal(amount, method)]]
  /\ UNCHANGED <<stores, now, env>>

\* A call of PaymentService.calculateFees.
CallCalculateFees(i, amount, method, coursePrice) ==
  /\ CanStart(i)
  /\ reqs' = [reqs EXCEPT ![i] = [pc |-> "done", kind |-> "calculateFees",
                                   args |-> [amount |-> amount, method |-> method,
                                             coursePrice |-> coursePrice],
                                   http |-> 0, result |-> "fees",
                                   verdict |-> calculateFees(amount, method, coursePrice)]]
  /\ UNCHANGED <<stores, now, env>>

\* The required amounts and, around each, the paid amounts the validators are
\* called with: not a number, negative, zero, the least positive amounts, both
\* sides of the tolerance and of the overpayment threshold, and the amounts of
\* the worked example of the specification.
RequiredAmounts == {Cent, 50 * Usd, 55 * Usd, 5650 * Cent}
Offsets == {0 - 2 * Cent, 0 - Cent - 1, 0 - Cent, 1 - Cent, 0 - 1, 0, 1, Cent,
            overpaymentThreshold, overpaymentThreshold + 1, overpaymentThreshold + Cent}
PaidAmounts(required) ==
  {NaN, Num(0 - Cent), Num(0), Num(1), Num(Cent), Num(50 * Usd), Num(5650 * Cent),
   Num(200 * Usd)}
  \cup {Num(required + o) : o \in Offsets}

\* No request has arrived yet: the validators and calculators are pure, and one
\* call decides what every call returns.
FirstRequest == \A j \in Slots : reqs[j] = Idle

NextValidate ==
  \/ \E i \in Slots, r \in RequiredAmounts : \E paid \in PaidAmounts(r) :
       FirstRequest /\ CallValidatePaymentAmount(i, Num(r), paid)
  \/ \E i \in Slots, r \in RequiredAmounts : \E paid \in PaidAmounts(r) :
       FirstRequest /\ CallValidateAmount(i, paid, Num(r))
  \/ \E i \in Slots, c \in Courses \cup {NoCourse} : \E paid \in PaidAmounts(requiredAmount(c)) :
       FirstRequest /\ ValidateAmountRoute(i, c, paid)
  \/ \E i \in Slots, a \in FeeAmounts, m \in Methods \cup {"other"} :
       FirstRequest /\ CallCalculateTotal(i, a, m)
  \/ \E i \in Slots, a \in FeeAmounts, m \in Methods \cup {"other"}, p \in {50 * Usd, 20 * Usd} :
       FirstRequest /\ CallCalculateFees(i, a, m, p)

SpecValidate == Init /\ [][NextValidate]_vars

\* ------------------------------------------------------- amount validator
ValidatorKinds == {"validatePaymentAmount", "validateAmount"}
Positive(a) == ~a.nan /\ a.v > 0

\* The validator calls that have returned (a /validate-amount request for an
\* unknown course returns no verdict).
Validated(kinds) ==
  {i \in Slots : Done(i) /\ reqs[i].kind \in kinds /\ "verdict" \in DOMAIN reqs[i]}

\* C15: for a positive required amount and a positive paid amount of at least
\* required - tolerance, both validators return valid = true, also when the
\* overpayment is above the overpayment threshold.
C15_AcceptsWithinTolerance ==
  \A i \in Validated(ValidatorKinds) :
    (/\ Positive(reqs[i].args.required)
     /\ Positive(reqs[i].args.paid)
     /\ reqs[i].args.paid.v >= reqs[i].args.required.v - tolerance)
    => reqs[i].verdict.valid

\* C15 below the overpayment threshold only.
C15_AcceptsUpToThreshold ==
  \A i \in Validated(ValidatorKinds) :
    (/\ Positive(reqs[i].args.required)
     /\ Positive(reqs[i].args.paid)
     /\ reqs[i].args.paid.v >= reqs[i].args.required.v - tolerance
     /\ reqs[i].args.paid.v - reqs[i].args.required.v <= overpaymentThreshold)
    => reqs[i].verdict.valid

\* The shortfall a verdict reports: the processor's field, the route's
\* details.shortfall, the figure printed in the service's message.
ReportsShortfall(kind, verdict, shortfall) ==
  CASE kind = "validateAmount" -> verdict.shortfall = shortfall
    [] kind = "validate-amount" -> verdict.details.shortfall = shortfall
    [] OTHER -> verdict.message.shortfall = toFixed2(shortfall)

C17_InvalidAmount ==
  \A i \in Validated(ValidatorKinds) :
    ~Positive(reqs[i].args.paid) =>
      (~reqs[i].verdict.valid /\ reqs[i].verdict.type = "invalid_amount")

\* C17 for PaymentService.validatePaymentAmount alone.
C17_ServiceInvalidAmount ==
  \A i \in Validated({"validatePaymentAmount"}) :
    ~Positive(reqs[i].args.paid) =>
      (~reqs[i].verdict.valid /\ reqs[i].verdict.type = "invalid_amount")

\* C18: for a course priced 50 and method paychangu the fees are 5.00 and 1.50
\* and the total 56.50; the required amount of that course is 56.50, so that a
\* paid 56.50 is valid, a paid 50.00 an underpayment with shortfall 6.50, and a
\* paid 200 valid with an overpayment of 143.50.
C18_WorkedExample ==
  /\ \A i \in Validated({"calculateTotal"}) :
       (reqs[i].args.amount = 50 * Usd /\ reqs[i].args.method = "paychangu")
       => /\ reqs[i].verdict.platformFee = 5 * Usd
          /\ reqs[i].verdict.paymentFee = 150 * Cent
          /\ reqs[i].verdict.total = 5650 * Cent
  /\ \A i \in Validated({"validate-amount"}) :
       priceUSD(reqs[i].args.courseId) = 50 * Usd
       => /\ reqs[i].args.required = Num(5650 * Cent)
          /\ reqs[i].args.paid = Num(5650 * Cent) => reqs[i].verdict.valid
          /\ reqs[i].args.paid = Num(50 * Usd)
               => /\ reqs[i].verdict.type = "underpayment"
                  /\ reqs[i].verdict.details.shortfall = Num(650 * Cent)
          /\ reqs[i].args.paid = Num(200 * Usd)
               => /\ reqs[i].verdict.valid
                  /\ reqs[i].verdict.details.overpayment = Num(14350 * Cent)

\* The fee half of C18 alone.
C18_FeesOfExample ==
  \A i \in Validated({"calculateTotal"}) :
    (reqs[i].args.amount = 50 * Usd /\ reqs[i].args.method = "paychangu")
    => /\ reqs[i].verdict.platformFee = 5 * Usd
       /\ reqs[i].verdict.paymentFee = 150 * Cent
       /\ reqs[i].verdict.total = 5650 * Cent

\* ------------------------------------------------------------ net amount
\* Orders of createPaymentOrder, over methods and requested amounts, and every
\* operation that later writes to a `payments` document.
NextFees ==
  \/ \E i \in Slots, m \in Methods, a \in FeeAmounts :
       createPaymentOrder(i, "u1", "c1", m, a, 1)
  \/ \E i \in Slots, pid \in PaymentIds, st \in {"completed", "failed"} :
       updatePaymentStatus(i, pid, st)
  \/ \E i \in Slots, pid \in PaymentIds : refundPayment(i, pid)
  \/ \E i \in Slots, pid \in PaymentIds : verifyPayment(i, pid)
  \/ \E i \in Slots : verifyPaymentUpdate(i)
  \/ \E i \in Slots, pid \in PaymentIds : VerifyPayment(i, "u1", FALSE, pid, "paychangu")
  \/ \E i \in Slots, ok \in BOOLEAN : VerifyUpdate(i, ok, "t1")
  \/ \E i \in Slots, ref \in PaymentRefs : PaychanguWebhook(i, "valid", "SUCCESS", ref, "t1")
  \/ \E i \in Slots : PaychanguWebhookUpdate(i)
  \/ \E i \in Slots : EnrollSteps(i)

SpecFees == Init /\ [][NextFees]_vars

\* The orders that carry the amounts of createPaymentOrder.
PricedOrders ==
  {d \in DOMAIN payments :
     "fees" \in DOMAIN payments[d] /\ "total" \in DOMAIN payments[d].fees}

\* The processing fee of a method on an amount: 3%, 2.9% + 0.30, or nothing.
ProcessingFeeOn(amount, method) ==
  CASE method = "paychangu" -> Rate(amount, 30)
    [] method = "paypal" -> Rate(amount, 29) + 30 * Cent
    [] OTHER -> 0

IsPrefix(a, b) == Len(a) <= Len(b) /\ \A j \in 1..Len(a) : a[j] = b[j]

\* The step from document old to document new, when it changes the status,
\* appends exactly one history entry, which carries the new status; no step
\* removes or rewrites an entry.
HistoryStep(old, new) ==
  /\ IsPrefix(HistoryOf(old), HistoryOf(new))
  /\ new.status # old.status =>
       /\ Len(HistoryOf(new)) = Len(HistoryOf(old)) + 1
       /\ HistoryOf(new)[Len(HistoryOf(new))].status = new.status

\* C20: every step that changes an order's status appends exactly one history
\* entry with the new status, and no step removes or rewrites an entry.
C20_HistoryComplete ==
  [][/\ \A d \in DOMAIN payments : HistoryStep(payments[d], payments'[d])
     /\ \A d \in DOMAIN payment_orders :
          HistoryStep(payment_orders[d], payment_orders'[d])]_vars

\* The append-only half of C20 alone.
C20_AppendOnly ==
  [][/\ \A d \in DOMAIN payments :
          IsPrefix(HistoryOf(payments[d]), HistoryOf(payments'[d]))
     /\ \A d \in DOMAIN payment_orders :
          IsPrefix(HistoryOf(payment_orders[d]), HistoryOf(payment_orders'[d]))]_vars

\* C20 for the three PaymentService methods alone.
C20_ServiceHistory ==
  [][\A i \in Slots :
       (Moves(i) /\ reqs'[i].kind \in {"updatePaymentStatus", "refundPayment", "verifyPayment"})
       => \A d \in DOMAIN payments : HistoryStep(payments[d], payments'[d])]_vars

\* ------------------------------------------------------- transition graph
\* The edges of the order state machine.
Edge(old, new) ==
  \/ old = "pending" /\ new \in {"processing", "expired"}
  \/ old = "processing" /\ new \in {"completed", "failed"}
  \/ old = "completed" /\ new = "refunded"

\* C21: every step that changes the status of a stored order follows an edge of
\* pending -> processing -> {completed, failed}, pending -> expired,
\* completed -> refunded.
C21_TransitionGraph ==
  [][/\ \A d \in DOMAIN payments :
          payments'[d].status # payments[d].status =>
            Edge(payments[d].status, payments'[d].status)
     /\ \A d \in DOMAIN payment_orders :
          payment_orders'[d].status # payment_orders[d].status =>
            Edge(payment_orders[d].status, payment_orders'[d].status)]_vars

\* The part of C21 about 'refunded' alone: entered only from 'completed'.
C21_RefundedOnlyFromCompleted ==
  [][/\ \A d \in DOMAIN payments :
          (payments'[d].status = "refunded" /\ payments[d].status # "refunded")
            => payments[d].status = "completed"
     /\ \A d \in DOMAIN payment_orders :
          (payment_orders'[d].status = "refunded" /\ payment_orders[d].status # "refunded")
            => payment_orders[d].status = "completed"]_vars

\* The part of C21 about 'processing' alone, for PaymentService.verifyPayment:
\* its write enters 'completed' from a status other than 'processing'.
C21_ServiceVerifyFromProcessing ==
  [][\A i \in Slots :
       (reqs[i].pc = "sv_update" /\ reqs'[i].pc = "done"
        /\ payments'[reqs[i].doc].status # payments[reqs[i].doc].status)
       => payments[reqs[i].doc].status = "processing"]_vars

\* -------------------------------------------------------------- confluence
\* What the provider reports for a payment, to the webhook and to the poll.
Outcomes == {"SUCCESS", "FAILED", "PENDING"}

\* The state POST /create-paychangu leaves for u1 and c1 once the provider has
\* accepted the payment: one pending order that carries its provider reference.
InitStored ==
  /\ payments = SetDoc(<<>>, AutoId(<<>>),
        [orderId |-> <<"MRTC", 0, 1>>, userId |-> "u1", courseId |-> "c1",
         method |-> "paychangu", status |-> "pending",
         amount |-> [usd |-> requiredAmount("c1")],
         fees |-> [platform |-> Rate(priceUSD("c1"), 100),
                   processing |-> Rate(requiredAmount("c1"), 30)],
         history |-> <<>>,
         paymentDetails |->
           PutField(PutField([x \in {"provider"} |-> "Paychangu"], "transactionId", "t1"),
                    "paymentUrl", "url"),
         createdAt |-> 0])
  /\ payment_orders = <<>>
  /\ enrollments = <<>>
  /\ courses = [c \in Courses |-> [totalEnrollments |-> 0, enrollmentCount |-> 0]]
  /\ users = [u \in Users |-> {}]
  /\ reqs = [i \in Slots |-> Idle]
  /\ now = 0
  /\ env \in [production : BOOLEAN, paychanguSecret : BOOLEAN, paypalWebhookId : BOOLEAN]

\* The outcome a request that has been answered was applied with: a webhook's is
\* its status; a verify-payment call only tells success from anything else.
AppliedWith(r, o) ==
  CASE r.kind = "paychangu-webhook" -> r.args.status = o
    [] r.kind = "verify-payment" -> (r.result = "failed") = (o # "SUCCESS")
    [] OTHER -> TRUE

\* Every request answered so far was applied with outcome o.
SameOutcome(o) == \A j \in Slots : Done(j) => AppliedWith(reqs[j], o)

\* The webhook and the verify-payment call of one order and one outcome, applied
\* one after the other, in either order and repeatedly.
NextConfluence ==
  \/ \E i \in Slots, o \in Outcomes, ref \in PaymentRefs \ {NoOrder} :
       Quiescent /\ SameOutcome(o) /\ PaychanguWebhook(i, "valid", o, ref, "t1")
  \/ \E i \in Slots : PaychanguWebhookUpdate(i)
  \/ \E i \in Slots, pid \in PaymentIds \ {NoDoc} :
       Quiescent /\ VerifyPayment(i, "u1", FALSE, pid, "paychangu")
  \/ \E i \in Slots, o \in Outcomes :
       SameOutcome(o) /\ VerifyUpdate(i, o = "SUCCESS", "t1")
  \/ \E i \in Slots : EnrollSteps(i)

SpecConfluence == InitStored /\ [][NextConfluence]_vars

\* The webhook and the verify-payment call have each been applied to order d.
AppliedBoth(d) ==
  /\ \E i \in Slots : /\ Done(i) /\ reqs[i].kind = "paychangu-webhook"
                      /\ reqs[i].args.ref = payments[d].orderId
  /\ \E i \in Slots : /\ Done(i) /\ reqs[i].kind = "verify-payment"
                      /\ reqs[i].args.key = d

\* The outcomes the requests answered so far can all have been applied with.
OutcomesSoFar == {o \in Outcomes : SameOutcome(o)}

\* C22: once the webhook and the verify-payment call of one outcome have both
\* been applied to an order, in either order, the order's status and the
\* enrollments are final: applying either of them again changes neither.
C22_Confluence ==
  [][\A d \in DOMAIN payments :
       AppliedBoth(d) =>
         /\ payments'[d].status = payments[d].status
         /\ enrollments' = enrollments]_vars

\* C22 for the outcomes SUCCESS and FAILED alone.
C22_ConfluenceWhenSettled ==
  [][\A d \in DOMAIN payments :
       (AppliedBoth(d) /\ OutcomesSoFar \cap {"SUCCESS", "FAILED"} # {})
       => /\ payments'[d].status = payments[d].status
          /\ enrollments' = enrollments]_vars

\* Both have been applied with outcome SUCCESS and one of them again.
C22_AppliedThrice ==
  /\ \A i \in Slots : Done(i) /\ reqs[i].http = 200
  /\ SameOutcome("SUCCESS")
  /\ \E d \in DOMAIN payments : AppliedBoth(d) /\ payments[d].status = "completed"

\* ------------------------------------------------------------- lost update
\* The positions at which a handler writes the status of the order it has read.
StatusWritePcs ==
  {"v_update", "pw_update", "ppw_update", "sv_update",
   "hs_update", "hf_update", "hp_update", "hr_update"}

\* Request i writes the order it has read.
WritesOrder(i) ==
  /\ reqs[i].pc \in StatusWritePcs
  /\ Moves(i)
  /\ OrderAfter(i) # OrderOf(i)

\* C23: a handler's status write commits only while the stored status is still
\* the one the handler read.
C23_NoLostUpdate ==
  [][\A i \in Slots : WritesOrder(i) => OrderOf(i).status = reqs[i].read]_vars

\* The example of C23: a verify-payment call that read 'pending' never writes
\* 'failed' over a 'completed' that a webhook wrote in between.
C23_NoStaleFailed ==
  [][\A i \in Slots :
       (/\ WritesOrder(i)
        /\ reqs[i].kind = "verify-payment"
        /\ reqs[i].read = "pending"
        /\ OrderOf(i).status = "completed")
       => OrderAfter(i).status # "failed"]_vars

\* ------------------------------------------------- verify of a pending payment
\* C24: the status write of a verify-payment call for method bank_transfer,
\* whose provider check never reports success, leaves the order's status as it
\* is.
C24_PendingVerifyKeepsStatus ==
  [][\A i \in Slots :
       (/\ reqs[i].pc = "v_update"
        /\ Moves(i)
        /\ reqs[i].args.method = "bank_transfer")
       => payments'[reqs[i].doc].status = payments[reqs[i].doc].status]_vars

\* The part of C24 that the route keeps: such a call never completes the order.
C24_PendingVerifyNeverCompletes ==
  [][\A i \in Slots :
       (/\ reqs[i].pc = "v_update"
        /\ Moves(i)
        /\ reqs[i].args.method = "bank_transfer"
        /\ payments[reqs[i].doc].status # "completed")
       => payments'[reqs[i].doc].status # "completed"]_vars

\* ---------------------------------------------------- rejected initiation
\* POST /create-paychangu is answered with an error after its order was stored.
InitiationRejected(i) ==
  /\ reqs[i].pc = "cp_provider"
  /\ reqs'[i].pc = "done"
  /\ reqs'[i].http # 200

\* C25: when the provider rejects the initiation of a stored order, the step
\* that answers the create request with the error leaves the order 'failed'.
C25_RejectedInitiationFails ==
  [][\A i \in Slots :
       InitiationRejected(i) => payments'[reqs[i].doc].status = "failed"]_vars

\* What the route does instead: the order is left as it was stored.
C25_RejectedInitiationKeepsOrder ==
  [][\A i \in Slots :
       InitiationRejected(i) => payments'[reqs[i].doc] = payments[reqs[i].doc]]_vars

\* ------------------------------------------------- idempotent enrollment
\* Request i, about to take the first step of enrollUserInCourse (of the payment
\* routes at "enroll_query", of the webhook handlers at "we_set"), for a pair
\* that has an enrollment.
EnrollsAgain(i, pc) ==
  /\ reqs[i].pc = pc
  /\ Moves(i)
  /\ WhereUserCourse(reqs[i].u, reqs[i].c) # {}

\* C26: enrollUserInCourse, called for a pair that has an enrollment, creates
\* and changes nothing (enrollment records, enrolledCourses, course counters)
\* and returns at once with a success, not an error result.
C26_EnrollIdempotent ==
  [][\A i \in Slots :
       /\ EnrollsAgain(i, "enroll_query") =>
            /\ UNCHANGED <<enrollments, users, courses>>
            /\ reqs'[i].pc = "done"
            /\ reqs'[i].result = "enrolled"
       /\ EnrollsAgain(i, "we_set") =>
            /\ UNCHANGED <<enrollments, users, courses>>
            /\ reqs'[i].pc # "we_count"]_vars

\* C26 for enrollUserInCourse of the payment routes, without the result: the
\* existing enrollment is found and nothing is written.
C26_RouteWritesNothing ==
  [][\A i \in Slots :
       EnrollsAgain(i, "enroll_query") =>
         /\ UNCHANGED <<enrollments, users, courses>>
         /\ reqs'[i].pc = "done"]_vars

\* C26 for enrollUserInCourse of the webhook handlers alone.
C26_HandlerIdempotent ==
  [][\A i \in Slots :
       EnrollsAgain(i, "we_set") =>
         /\ UNCHANGED <<enrollments, users, courses>>
         /\ reqs'[i].pc # "we_count"]_vars

\* ------------------------------------------------------- frame of an order
\* Orders of the three creators, and every operation that later writes to them.
NextFrame ==
  \/ \E i \in Slots : createPaymentOrder(i, "u1", "c1", "paychangu", requiredAmount("c1"), 1)
  \/ \E i \in Slots : CreatePaychangu(i, "u1", "c1", TRUE, TRUE, 1)
  \/ \E i \in Slots : CreatePaychanguProvider(i, TRUE, "t1")
  \/ \E i \in Slots : CreateOrder(i, "u1", "c1", 1)
  \/ \E i \in Slots, pid \in PaymentIds, m \in {"paychangu", "bank_transfer"} :
       VerifyPayment(i, "u1", FALSE, pid, m)
  \/ \E i \in Slots, ok \in BOOLEAN : VerifyUpdate(i, ok, "t1")
  \/ \E i \in Slots, st \in {"SUCCESS", "FAILED"}, ref \in PaymentRefs :
       PaychanguWebhook(i, "valid", st, ref, "t1")
  \/ \E i \in Slots : PaychanguWebhookUpdate(i)
  \/ \E i \in Slots, ev \in {"payment.success", "payment.failed"}, ref \in OrderRefs :
       WebhooksPaychangu(i, IF env.paychanguSecret THEN "valid" ELSE "valid_default",
                         ev, ref, "t1")
  \/ \E i \in Slots, ref \in OrderRefs :
       WebhooksPaypal(i, "valid", "PAYMENT.CAPTURE.REFUNDED", ref, "t1")
  \/ \E i \in Slots, pid \in PaymentIds : updatePaymentStatus(i, pid, "processing")
  \/ \E i \in Slots, pid \in PaymentIds : refundPayment(i, pid)
  \/ \E i \in Slots : EnrollSteps(i)
  \/ \E i \in Slots : HandlerSteps(i)
  \/ \E i \in Slots : HandleFailedUpdate(i)
  \/ \E i \in Slots : HandleRefundedUpdate(i)
  \/ \E i \in Slots : HandleRefundedEnrollment(i)

SpecFrame == Init /\ [][NextFrame]_vars

\* An order document, as against the payment record a webhook handler writes.
IsOrder(doc) == "method" \notin DOMAIN doc \/ doc.method # "none"

\* The fields that later operations write: the status fields, the history and
\* the provider details; and the two further records that verify-payment and
\* refundPayment add.
ListedFields == {"status", "paymentStatus", "history", "paymentDetails"}
WrittenFields == ListedFields \cup {"verificationError", "refund"}

\* From document old to document new, only fields of `written` differ.
FrameKept(old, new, written) ==
  /\ \A k \in (DOMAIN old) \ written : k \in DOMAIN new /\ new[k] = old[k]
  /\ (DOMAIN new) \ (DOMAIN old) \subseteq written

\* No step changes a stored order outside the fields of `written`.
OrdersChangeOnly(written) ==
  /\ \A d \in DOMAIN payments :
       IsOrder(payments[d]) => FrameKept(payments[d], payments'[d], written)
  /\ \A d \in DOMAIN payment_orders :
       FrameKept(payment_orders[d], payment_orders'[d], written)

IncrementStep(i) ==
  /\ reqs[i].pc \in {"enroll_course", "we_count"}
  /\ Moves(i)

\* C28: whether or not the counter increment succeeds, the enrollment record
\* remains and the request that called enrollUserInCourse is answered 200.
C28_BestEffortIncrement ==
  [][\A i \in Slots :
       IncrementStep(i) =>
         /\ enrollments' = enrollments
         /\ reqs'[i].pc = "done"
         /\ reqs'[i].http = 200]_vars

\* The part of C28 that holds: a failed increment leaves the enrollment record.
C28_RecordRemains ==
  [][\A i \in Slots : IncrementStep(i) => enrollments' = enrollments]_vars

\* ---------------------------------------------------------- unique order ids
\* C29: no two stored orders share an orderId, whichever generator made it.
C29_UniqueOrderIds ==
  /\ \A d1, d2 \in DOMAIN payments :
       d1 # d2 => payments[d1].orderId # payments[d2].orderId
  /\ \A d1, d2 \in DOMAIN payment_orders :
       d1 # d2 => payment_orders[d1].orderId # payment_orders[d2].orderId

\* C29 for the generator of POST /create-paypal alone, whose ids are the clock
\* reading and nothing else.
C29_UniquePaypalOrderIds ==
  \A d1, d2 \in DOMAIN payments :
    (d1 # d2 /\ payments[d1].method = "paypal" /\ payments[d2].method = "paypal")
    => payments[d1].orderId # payments[d2].orderId

\* C29 for orders created at different clock readings.
C29_UniqueAcrossTicks ==
  \A d1, d2 \in DOMAIN payments :
    (d1 # d2 /\ payments[d1].createdAt # payments[d2].createdAt)
    => payments[d1].orderId # payments[d2].orderId

\* --------------------------------------------------------- rejected creates
\* The bodies of a create request: a complete one for course c1 at the required
\* amount, and those that differ from it in one field.
ValidBody ==
  [courseId |-> "c1", userId |-> "u1", amount |-> Num(requiredAmount("c1")),
   phoneOk |-> TRUE]
CreateBodies ==
  {ValidBody}
  \cup {[ValidBody EXCEPT !.amount = a] :
          a \in {NaN, Num(0), Num(0 - Cent), Num(priceUSD("c1")),
                 Num(requiredAmount("c1") + overpaymentThreshold + Cent)}}
  \cup {[ValidBody EXCEPT !.courseId = c] : c \in {Missing, NoCourse}}
  \cup {[ValidBody EXCEPT !.userId = Missing], [ValidBody EXCEPT !.phoneOk = FALSE]}
\* Of these, one body for each check that the other creators make.
FewBodies ==
  {ValidBody, [ValidBody EXCEPT !.amount = NaN],
   [ValidBody EXCEPT !.amount = Num(priceUSD("c1"))],
   [ValidBody EXCEPT !.courseId = NoCourse], [ValidBody EXCEPT !.userId = Missing]}

\* The four creators, over these bodies, with either answer of the provider.
NextReject ==
  \/ \E i \in Slots, b \in CreateBodies :
       CreatePaychanguRequest(i, "u1", b.courseId, b.userId, b.amount, b.phoneOk, 1)
  \/ \E i \in Slots, ok \in BOOLEAN : CreatePaychanguProvider(i, ok, "t1")
  \/ \E i \in Slots, b \in FewBodies :
       CreatePaypalRequest(i, "u1", b.courseId, b.userId, b.amount)
  \/ \E i \in Slots, ok \in BOOLEAN : CreatePaypalProvider(i, ok)
  \/ \E i \in Slots, c \in {"c1", NoCourse} :
       createPaymentOrder(i, "u1", c, "paychangu", requiredAmount("c1"), 1)
  \/ \E i \in Slots, b \in FewBodies :
       CreateOrderRequest(i, b.userId, b.courseId, b.amount, "paychangu", 1)

SpecReject == Init /\ [][NextReject]_vars

AllCreateKinds == CreateKinds \cup {"create-order"}

\* The answer of a create request that validation rejected.
RejectedAnswer(r) ==
  \/ r.http \in {400, 404}
  \/ r.kind = "createPaymentOrder" /\ r.result = "Course not found"

\* The positions of a create request at which the provider is being called.
ProviderPcs == {"cp_provider", "pp_provider"}

\* C30: a create request that validation rejects is answered in its first
\* step, before the provider is called, and that step writes to no store.
C30_RejectedCreateWritesNothing ==
  [][\A i \in Slots :
       (/\ Answered(i)
        /\ reqs'[i].kind \in AllCreateKinds
        /\ RejectedAnswer(reqs'[i]))
       => /\ reqs[i] = Idle
          /\ reqs[i].pc \notin ProviderPcs
          /\ UNCHANGED stores]_vars

\* The body of a /create-paychangu or /create-paypal request has one of the
\* faults that the validation of these routes names.
FaultyBody(r) ==
  \/ ~Positive(r.args.amount)
  \/ r.args.courseId \notin Courses
  \/ r.args.bodyUserId = Missing
  \/ r.args.amount.v < requiredAmount(r.args.courseId) - tolerance
  \/ r.kind = "create-paychangu" /\ ~r.args.phoneOk

\* Both routes do reject every such body, and store nothing.
C30_FaultyBodyRejected ==
  [][\A i \in Slots :
       (/\ reqs[i] = Idle
        /\ reqs'[i] # Idle
        /\ reqs'[i].kind \in {"create-paychangu", "create-paypal"}
        /\ FaultyBody(reqs'[i]))
       => /\ reqs'[i].pc = "done"
          /\ RejectedAnswer(reqs'[i])
          /\ UNCHANGED stores]_vars

\* Creates were rejected for an underpayment, for an unknown course and for the
\* phone number, and the stores are as they were.
C30_RejectionsReached ==
  /\ payments = <<>>
  /\ payment_orders = <<>>
  /\ \E i \in Slots : Done(i) /\ reqs[i].kind = "create-paychangu"
                      /\ reqs[i].result = "underpayment"
  /\ \E i \in Slots : Done(i) /\ reqs[i].kind = "create-paypal"
                      /\ reqs[i].result = "Course not found"
  /\ \E i \in Slots : Done(i) /\ reqs[i].kind = "create-paychangu"
                      /\ reqs[i].result = "Invalid phone number format"

\* ------------------------------------------------- expiry against completion
\* The enrollment records made for the order document d of `payments`.
EnrolledFor(d) == {e \in DOMAIN enrollments : enrollments[e].paymentId = d}

\* C31: when the write of 'expired' and a completion meet on one pending order,
\* the order ends 'completed' with an enrollment or 'expired' without one: no
\* step writes 'expired' over 'completed', and no step leaves an order 'expired'
\* with an enrollment made for it.
C31_ExpiryRace ==
  [][\A d \in DOMAIN payments :
       /\ payments[d].status = "completed" => payments'[d].status # "expired"
       /\ payments'[d].status = "expired" => {e \in DOMAIN enrollments' :
                                                 enrollments'[e].paymentId = d} = {}]_vars

\* The second half of C31 alone, as a state predicate.
C31_NoExpiredEnrollment ==
  \A d \in DOMAIN payments : payments[d].status = "expired" => EnrolledFor(d) = {}

\* ------------------------------------------------------------ status values
\* The routes and the service method that create orders in `payments`, and the
\* webhooks, verify calls and service methods that write an order's status.
NextStatus ==
  \/ \E i \in Slots, m \in Methods :
       createPaymentOrder(i, "u1", "c1", m, requiredAmount("c1"), 1)
  \/ \E i \in Slots : CreatePaychangu(i, "u1", "c1", TRUE, TRUE, 1)
  \/ \E i \in Slots, ok \in BOOLEAN : CreatePaychanguProvider(i, ok, "t1")
  \/ \E i \in Slots : CreatePaypal(i, "u1", "c1", TRUE)
  \/ \E i \in Slots, ok \in BOOLEAN : CreatePaypalProvider(i, ok)
  \/ \E i \in Slots, ref \in PaymentRefs, ok \in BOOLEAN :
       UploadBankProof(i, "u1", ref, "u1", ok)
  \/ \E i \in Slots, ok \in BOOLEAN : UploadBankProofSet(i, ok)
  \/ \E i \in Slots, pid \in PaymentIds, m \in {"paychangu", "bank_transfer"} :
       VerifyPayment(i, "u1", FALSE, pid, m)
  \/ \E i \in Slots, ok \in BOOLEAN : VerifyUpdate(i, ok, "t1")
  \/ \E i \in Slots, st \in PaychanguStatuses, ref \in PaymentRefs :
       PaychanguWebhook(i, "valid", st, ref, "t1")
  \/ \E i \in Slots : PaychanguWebhookUpdate(i)
  \/ \E i \in Slots, ref \in PaypalRefs :
       PaypalWebhook(i, "valid", "PAYMENT.CAPTURE.COMPLETED", ref)
  \/ \E i \in Slots : PaypalWebhookUpdate(i, "t1")
  \/ \E i \in Slots, pid \in PaymentIds : refundPayment(i, pid)
  \/ \E i \in Slots, pid \in PaymentIds : verifyPayment(i, pid)
  \/ \E i \in Slots : verifyPaymentUpdate(i)
  \/ \E i \in Slots : EnrollSteps(i)

SpecStatus == Init /\ [][NextStatus]_vars

\* The requests that create an order document in `payments`.
OrderRoutes == {"createPaymentOrder", "create-paychangu", "create-paypal", "uploads/bank-proof"}

\* Request i creates the document d in this step.
Creates(i, d) ==
  /\ d \notin DOMAIN payments
  /\ d \in DOMAIN payments'
  /\ reqs'[i] # reqs[i]
  /\ reqs'[i].kind \in OrderRoutes

\* C32: an order's status is always one of pending, processing, completed,
\* failed, expired, refunded; every order created by createPaymentOrder,
\* /create-paychangu, /create-paypal or /uploads/bank-proof starts 'pending',
\* and every status a webhook, a verify call or a service method writes is one
\* of the six.
C32_StatusDomain ==
  [][/\ \A d \in DOMAIN payments' : payments'[d].status \in Statuses
     /\ \A i \in Slots, d \in DOMAIN payments' :
          Creates(i, d) => payments'[d].status = "pending"]_vars

\* C32 for the writes to stored orders alone: no step changes a status that is
\* one of the six into one that is not.
C32_WritesStayInDomain ==
  [][\A d \in DOMAIN payments :
       payments[d].status \in Statuses => payments'[d].status \in Statuses]_vars

\* C32 for the orders of the three routes that take a course and an amount.
C32_PricedOrdersStartPending ==
  [][\A i \in Slots, d \in DOMAIN payments' :
       (Creates(i, d) /\ reqs'[i].kind # "uploads/bank-proof")
       => payments'[d].status = "pending"]_vars

\* ------------------------------------------------- ownership of verify-payment
\* Orders of two users and their verify-payment calls, by payment id and by
\* order id, for their own orders and for the other user's.
NextOwnership ==
  \/ \E i \in Slots, u \in Users : CreatePaychangu(i, u, "c1", TRUE, TRUE, 1)
  \/ \E i \in Slots : CreatePaychanguProvider(i, TRUE, "t1")
  \/ \E i \in Slots, u \in Users, byOrder \in BOOLEAN :
       \E key \in (IF byOrder THEN PaymentRefs ELSE PaymentIds) :
         VerifyPayment(i, u, byOrder, key, "paychangu")
  \/ \E i \in Slots, ok \in BOOLEAN : VerifyUpdate(i, ok, "t1")
  \/ \E i \in Slots : EnrollSteps(i)

SpecOwnership == Init /\ [][NextOwnership]_vars

\* The documents a verify-payment request names.
Named(r) ==
  IF r.args.byOrder THEN WhereOrderId(payments, r.args.key)
  ELSE {r.args.key} \cap DOMAIN payments

\* A verify-payment request arrives in this step for an order of another user.
ForeignVerify(i) ==
  /\ reqs[i] = Idle
  /\ reqs'[i] # Idle
  /\ reqs'[i].kind = "verify-payment"
  /\ Named(reqs'[i]) # {}
  /\ \A d \in Named(reqs'[i]) : payments[d].userId # reqs'[i].args.userId

\* C33: a verify-payment call by a user other than the order's userId is
\* answered 403 without a change to the order, its paymentDetails or the
\* enrollments, and the provider is asked only on behalf of the order's owner.
C33_VerifyOwnership ==
  [][\A i \in Slots :
       /\ ForeignVerify(i) =>
            (reqs'[i].pc = "done" /\ reqs'[i].http = 403 /\ UNCHANGED stores)
       /\ reqs'[i].pc = "v_update" =>
            payments'[reqs'[i].doc].userId = reqs'[i].args.userId]_vars

\* An order has been refused to another user, by payment id and by order id,
\* and is still as it was created.
C33_ForeignRefused ==
  \E i, j \in Slots, d \in DOMAIN payments :
    /\ Done(i) /\ reqs[i].kind = "verify-payment" /\ reqs[i].http = 403
    /\ Done(j) /\ reqs[j].kind = "verify-payment" /\ reqs[j].http = 403
    /\ reqs[i].args.byOrder /\ reqs[i].args.key = payments[d].orderId
    /\ ~reqs[j].args.byOrder /\ reqs[j].args.key = d
    /\ payments[d].userId # reqs[i].args.userId
    /\ payments[d].status = "pending"
    /\ enrollments = <<>>

\* ------------------------------------------- the two validators, the two calculators
\* A call of the given kind has returned in slot j; no call of the kind was made.
Asked(j, kind) == Done(j) /\ reqs[j].kind = kind
NotYet(kind) == \A j \in Slots : IF reqs[j] = Idle THEN TRUE ELSE reqs[j].kind # kind

\* PaymentService.validatePaymentAmount and then PaymentProcessor.validateAmount
\* on the same two amounts; PaymentService.calculateFees and then
\* PaymentProcessor.calculateTotal on the same amount and method.
NextEquivalence ==
  \/ \E i \in Slots, r \in RequiredAmounts : \E paid \in PaidAmounts(r) :
       FirstRequest /\ CallValidatePaymentAmount(i, Num(r), paid)
  \/ \E i, j \in Slots :
       /\ Asked(j, "validatePaymentAmount")
       /\ NotYet("validateAmount")
       /\ CallValidateAmount(i, reqs[j].args.paid, reqs[j].args.required)
  \/ \E i \in Slots, a \in FeeAmounts, m \in Methods \cup {"other"}, p \in {50 * Usd, 20 * Usd} :
       FirstRequest /\ CallCalculateFees(i, a, m, p)
  \/ \E i, j \in Slots :
       /\ Asked(j, "calculateFees")
       /\ NotYet("calculateTotal")
       /\ CallCalculateTotal(i, reqs[j].args.amount, reqs[j].args.method)

SpecEquivalence == Init /\ [][NextEquivalence]_vars

\* The verdicts of the service's validator (i) and of the processor's (j) on
\* the same required and paid amounts.
SameAmounts(i, j) ==
  /\ reqs[i].kind = "validatePaymentAmount"
  /\ reqs[j].kind = "validateAmount"
  /\ reqs[i].args = reqs[j].args

\* C34: for every required and paid amount, validatePaymentAmount(required,
\* paid) and validateAmount(paid, required) return the same valid flag and the
\* same type.
C34_ValidatorsEquivalent ==
  \A i, j \in Validated(ValidatorKinds) :
    SameAmounts(i, j) =>
      /\ reqs[i].verdict.valid = reqs[j].verdict.valid
      /\ reqs[i].verdict.type = reqs[j].verdict.type

\* C34 for a positive paid amount that is not more than the overpayment
\* threshold above the required one.
C34_EquivalentOnPlausibleAmounts ==
  \A i, j \in Validated(ValidatorKinds) :
    (/\ SameAmounts(i, j)
     /\ Positive(reqs[i].args.paid)
     /\ reqs[i].args.paid.v - reqs[i].args.required.v <= overpaymentThreshold)
    => /\ reqs[i].verdict.valid = reqs[j].verdict.valid
       /\ reqs[i].verdict.type = reqs[j].verdict.type

\* The results of the service's calculator (i) and of the processor's (j) on
\* the same amount and method.
SameOrder(i, j) ==
  /\ reqs[i].kind = "calculateFees"
  /\ reqs[j].kind = "calculateTotal"
  /\ reqs[i].args.amount = reqs[j].args.amount
  /\ reqs[i].args.method = reqs[j].args.method

\* C35: for every amount and every method, recognised or not, the processing
\* fee of calculateFees equals the paymentFee of calculateTotal, and for
\* paychangu, paypal and bank_transfer both are 3%, 2.9% + 0.30 and 0.
C35_CalculatorsAgree ==
  \A i, j \in Validated({"calculateFees", "calculateTotal"}) :
    SameOrder(i, j) =>
      /\ reqs[i].verdict.processing = reqs[j].verdict.paymentFee
      /\ reqs[i].args.method \in Methods =>
           reqs[i].verdict.processing =
             ProcessingFeeOn(reqs[i].args.amount, reqs[i].args.method)

\* C35 for the three methods both calculators recognise.
C35_AgreeOnKnownMethods ==
  \A i, j \in Validated({"calculateFees", "calculateTotal"}) :
    (SameOrder(i, j) /\ reqs[i].args.method \in Methods) =>
      /\ reqs[i].verdict.processing = reqs[j].verdict.paymentFee
      /\ reqs[i].verdict.processing =
           ProcessingFeeOn(reqs[i].args.amount, reqs[i].args.method)

\* ------------------------------------------------------ enrollment counters
\* The users with an enrollment record for course c.
EnrolledUsers(c) == {u \in Users \cup {NoProfile} : WhereUserCourse(u, c) # {}}

\* The increments applied to course c: enrollUserInCourse of the payment
\* routes increments totalEnrollments, that of the webhook handlers and
\* /api/enroll enrollmentCount.
Increments(c) == courses[c].totalEnrollments + courses[c].enrollmentCount

\* C36: once every request is served, the number of counter increments applied
\* to a course is the number of distinct (userId, courseId) pairs with an
\* enrollment record for it; a redelivered success event increments nothing.
C36_CounterTracksEnrollments ==
  Quiescent => \A c \in Courses : Increments(c) = Cardinality(EnrolledUsers(c))

\* C36 for the payment routes alone: totalEnrollments counts the records their
\* enrollUserInCourse has set.
C36_RouteCounterExact ==
  Quiescent =>
    \A c \in Courses :
      courses[c].totalEnrollments =
        Cardinality({e \in DOMAIN enrollments :
                       enrollments[e].courseId = c /\ e[1] = "auto"})

\* C36 for the webhook handlers alone: enrollmentCount counts the records
\* `${userId}_${courseId}`.
C36_HandlerCounterExact ==
  Quiescent =>
    \A c \in Courses :
      courses[c].enrollmentCount =
        Cardinality({e \in DOMAIN enrollments :
                       enrollments[e].courseId = c /\ e[1] # "auto"})

\* --------------------------------------------- provider details of a webhook
\* The fields POST /paychangu-webhook writes into paymentDetails.
WebhookFields == {"webhookReceived", "webhookStatus", "transactionId"}

\* C37: once POST /paychangu-webhook has written paymentDetails.webhookReceived,
\* webhookStatus and transactionId on an order, no later step removes them, the
\* update of a verify-payment call that read the order before that write included.
C37_WebhookDetailsKept ==
  [][\A d \in DOMAIN payments :
       HasField(payments[d].paymentDetails, "webhookReceived") =>
         \A k \in WebhookFields : HasField(payments'[d].paymentDetails, k)]_vars

\* The fields are removed by nothing but the completing update of a
\* verify-payment call whose snapshot was read before the webhook's write.
C37_LostOnlyToStaleVerify ==
  [][\A d \in DOMAIN payments :
       (/\ HasField(payments[d].paymentDetails, "webhookReceived")
        /\ ~HasField(payments'[d].paymentDetails, "webhookReceived"))
       => \E i \in Slots :
            /\ reqs[i].pc = "v_update"
            /\ reqs[i].doc = d
            /\ ~HasField(reqs[i].details, "webhookReceived")
            /\ payments'[d].status = "completed"]_vars

\* ----------------------------------------------------------------- refund
\* The collections once POST /create-order for u1 and c1 and a
\* PAYMENT.CAPTURE.COMPLETED event for that order have been served: the order
\* completed, its payment record, the enrollment and the counter.
CapturedStores ==
  LET id == <<"MRTC-DATE", 0, 1>>
      fees == calculateFeesOrders(priceUSD("c1"), "paychangu")
  IN /\ payment_orders = SetDoc(<<>>, id,
           [orderId |-> id, userId |-> "u1", courseId |-> "c1", status |-> "completed",
            amount |-> fees.amount, platformFee |-> fees.platformFee,
            paymentFee |-> fees.paymentFee, totalAmount |-> fees.totalAmount,
            paymentMethod |-> "paychangu",
            paymentStatus |-> "completed", createdAt |-> 0,
            expiresAt |-> OrderTtlMs])
     /\ payments = SetDoc(<<>>, <<"PAYPAL", "t1", 0>>,
           [orderId |-> id, userId |-> "u1", courseId |-> "c1",
            method |-> "none", paymentMethod |-> "paypal",
            transactionId |-> "t1", status |-> "completed", history |-> <<>>,
            paymentDetails |-> NoDetails, createdAt |-> 0])
     /\ enrollments = SetDoc(<<>>, EnrollmentId("u1", "c1"),
           [userId |-> "u1", courseId |-> "c1", paymentId |-> NoDoc,
            orderId |-> id, status |-> "active"])
     /\ courses = [c \in Courses |-> [totalEnrollments |-> 0, enrollmentCount |-> 1]]
     /\ users = [u \in Users |-> {}]

InitCaptured ==
  /\ CapturedStores
  /\ reqs = [i \in Slots |-> Idle]
  /\ now = 0
  /\ env \in [production : BOOLEAN, paychanguSecret : BOOLEAN, paypalWebhookId : BOOLEAN]

\* The PayPal events for the captured order, delivered and redelivered.
NextRefund ==
  \/ \E i \in Slots, ref \in OrderRefs,
        ev \in {"PAYMENT.CAPTURE.COMPLETED", "PAYMENT.CAPTURE.REFUNDED"} :
       WebhooksPaypal(i, "valid", ev, ref, "t1")
  \/ \E i \in Slots : HandlerSteps(i)
  \/ \E i \in Slots : HandleRefundedUpdate(i)
  \/ \E i \in Slots : HandleRefundedEnrollment(i)

SpecRefund == InitCaptured /\ [][NextRefund]_vars

\* The order d is 'refunded' and so is its enrollment.
Refunded(d) ==
  /\ payment_orders[d].status = "refunded"
  /\ LET e == EnrollmentId(payment_orders[d].userId, payment_orders[d].courseId)
     IN e \in DOMAIN enrollments /\ enrollments[e].status = "refunded"

\* C38: once a PAYMENT.CAPTURE.REFUNDED event has set an order and its
\* enrollment to 'refunded', no later PAYMENT.CAPTURE.COMPLETED event for the
\* order returns the order to 'completed' or the enrollment to 'active'.
C38_RefundFinal ==
  [][\A d \in DOMAIN payment_orders :
       Refunded(d) =>
         /\ payment_orders'[d].status # "completed"
         /\ enrollments'[EnrollmentId(payment_orders[d].userId,
                                      payment_orders[d].courseId)].status # "active"]_vars

\* ------------------------------------------- the two PayChangu webhook endpoints
\* One order of each create route, and the provider's signed success event
\* for either of them at either PayChangu endpoint.
NextDelivery ==
  \/ \E i \in Slots : payments = <<>> /\ CreatePaychangu(i, "u1", "c1", TRUE, TRUE, 1)
  \/ \E i \in Slots : CreatePaychanguProvider(i, TRUE, "t1")
  \/ \E i \in Slots : payment_orders = <<>> /\ CreateOrder(i, "u1", "c1", 1)
  \/ \E i \in Slots, ref \in PaymentRefs \cup OrderRefs :
       PaychanguWebhook(i, "valid", "SUCCESS", ref, "t1")
  \/ \E i \in Slots : PaychanguWebhookUpdate(i)
  \/ \E i \in Slots, ref \in PaymentRefs \cup OrderRefs :
       WebhooksPaychangu(i, IF env.paychanguSecret THEN "valid" ELSE "valid_default",
                         "payment.success", ref, "t1")
  \/ \E i \in Slots : EnrollSteps(i)
  \/ \E i \in Slots : HandlerSteps(i)

SpecDelivery == Init /\ [][NextDelivery]_vars

\* Request i is a served success event of a PayChangu endpoint.
ServedSuccess(i) ==
  /\ Done(i)
  /\ \/ reqs[i].kind = "paychangu-webhook" /\ reqs[i].args.status = "SUCCESS"
     \/ reqs[i].kind = "webhooks/paychangu" /\ reqs[i].args.status = "payment.success"

\* The order document is completed and its user enrolled in its course.
Settled(doc) ==
  doc.status = "completed" /\ WhereUserCourse(doc.userId, doc.courseId) # {}

\* C39: once a correctly signed success event for a stored order has been
\* served, by POST /api/payments/paychangu-webhook or by POST
\* /webhooks/paychangu, the order is 'completed' and its user is enrolled.
C39_SuccessEventSettles ==
  \A i \in Slots :
    ServedSuccess(i) =>
      /\ \A d \in WhereOrderId(payments, reqs[i].args.ref) : Settled(payments[d])
      /\ \A d \in WhereOrderId(payment_orders, reqs[i].args.ref) : Settled(payment_orders[d])

\* C39 for the event that reaches the endpoint which reads the order's own
\* collection.
C39_OwnEndpointSettles ==
  \A i \in Slots :
    ServedSuccess(i) =>
      IF reqs[i].kind = "paychangu-webhook"
      THEN \A d \in WhereOrderId(payments, reqs[i].args.ref) :
             d[1] = "auto" => Settled(payments[d])
      ELSE \A d \in WhereOrderId(payment_orders, reqs[i].args.ref) :
             Settled(payment_orders[d])

\* ------------------------------------------ payment records of the handlers
\* The payment records the webhook handlers have written for the provider
\* transaction t of a method.
ProviderRecords(m, t) ==
  {d \in DOMAIN payments :
     /\ HasField(payments[d], "transactionId")
     /\ payments[d].transactionId = t
     /\ payments[d].paymentMethod = m}

\* C40: handlePaymentSuccess and handlePaymentCaptureCompleted write their
\* payment record under `PCHG-<transaction_id>` / `PAYPAL-<capture id>`: a
\* handler that has written it finds exactly one record of its provider
\* transaction, under that id, however often the event was delivered.
C40_OneRecordPerTransaction ==
  /\ \A m \in {"paychangu", "paypal"}, t \in Txns :
       /\ Cardinality(ProviderRecords(m, t)) <= 1
       /\ \A d \in ProviderRecords(m, t) :
            d = <<IF m = "paychangu" THEN "PCHG" ELSE "PAYPAL", t, 0>>
  /\ \A i \in Slots :
       reqs[i].pc \in {"we_set", "we_count"} =>
         Cardinality(ProviderRecords(HandlerMethod(reqs[i].kind), reqs[i].t)) = 1

\* The same success event has been served twice, through both enrollment steps,
\* and one payment record of its transaction exists.
C40_RedeliveredOnce ==
  \E o \in DOMAIN payment_orders :
    /\ Cardinality(SuccessDeliveries({"webhooks/paychangu"}, "payment.success",
                                     payment_orders[o].orderId)) = 2
    /\ courses[payment_orders[o].courseId].enrollmentCount = 2
    /\ ProviderRecords("paychangu", "t1") = {<<"PCHG", "t1", 0>>}
====
